---- MODULE Spec2Model ----
(***************************************************************************)
(* A model of the lesspass-otp derivation engine: the password assembler   *)
(* (LessPass::password), the OTP seed cipher (LessPass::secret_otp) and    *)
(* the OTP engine (Otp::hotp, Otp::totp_from_ts).                          *)
(*                                                                         *)
(* Bytes are integers 0..255, strings and byte buffers are sequences of    *)
(* bytes (characters are their ASCII codes).  The keyed hashes PBKDF2 and  *)
(* HMAC come from external crates: they are modelled as an arbitrary       *)
(* function, the table kdf, which answers a query it has not seen with any *)
(* sample digest of the algorithm's size and a repeated query as before.   *)
(***************************************************************************)
EXTENDS Integers, Sequences, FiniteSets, Bags, TLC

VARIABLES
    kdf,          \* the keyed hash so far: query -> the digest returned
    lp,           \* the LessPass object (its Master), or NoLessPass
    newResult,    \* what LessPass::new returned
    newArgs,      \* the arguments LessPass::new was called with
    pc,           \* per caller: position inside LessPass::password
    args,         \* per caller: the arguments of the running call
    algorithm,    \* per caller: local `algorithm`
    salt,         \* per caller: local `salt`
    entropy,      \* per caller: local `entropy` (the Entropy pool)
    password,     \* per caller: local `password` (the working buffer)
    additional,   \* per caller: local `additional_pass`
    password_len, \* per caller: local `password_len` of step 3
    idx,          \* per caller: iterations done by the running loop
    rem,          \* per caller: <<divisor, remainder>> of the last consume
    result,       \* per caller: the value the call returned
    log,          \* the calls that returned, in order, each with its
                  \* arguments, the salt and digest it used and its result
    otp,          \* the Otp object
    otpNew,       \* what Otp::new returned: "none" before it is called
    otpArgs,      \* the arguments Otp::new was called with
    otpLog,       \* the hotp / totp_from_ts calls that returned, in order
    cset,         \* a CharacterSet value its owner changes with set_*
    csIn,         \* the byte last given to CharacterSet::try_from
    csOut,        \* what that try_from returned
    model,        \* the web application's Model
    queue,        \* messages given to orders.send_msg, not yet handled
    cmds,         \* the futures given to orders.perform_cmd, still running,
                  \* as a bag: the same future may be given twice
    clock,        \* time::now() / 1000, the wall clock in seconds
    next_ulid,    \* the value the next Ulid::new() returns
    fault         \* the panic that stopped the application, or "none"

pwLocals == <<algorithm, salt, entropy, password, additional, password_len,
              idx, rem>>

lpVars == <<lp, newResult, newArgs>>
otpVars == <<otp, otpNew, otpArgs, otpLog>>
csVars == <<cset, csIn, csOut>>
uiVars == <<model, queue, cmds, clock, next_ulid, fault>>
coreVars == <<kdf, lpVars, pc, args, pwLocals, result, log, otpVars, csVars>>
lessVars == <<lpVars, pc, args, pwLocals, result, log>>
vars == <<kdf, lpVars, pc, args, pwLocals, result, log, otpVars,
          csVars, uiVars>>

-----------------------------------------------------------------------------
(* Bounds of the model *)

\* lengths 0..MaxSmallLen are tried besides the lengths around each ceiling
MaxSmallLen == 6
\* digests are drawn from the samples 0..MaxSeed
MaxSeed == 2
\* number of concurrent callers of one LessPass
NProcs == 2
\* number of calls a caller makes one after the other
MaxCalls == 3
\* seed-cipher keystreams are drawn from the samples 0..MaxKeySeed
MaxKeySeed == 65
\* number of hotp / totp_from_ts calls made on one Otp
MaxOtpCalls == 2
\* the HOTP counters 0..MaxCounter are tried
MaxCounter == 2
\* the TOTP times 0..MaxTime are tried
MaxTime == 4
\* the digits 0..MaxOtpDigits are given to Otp::new
MaxOtpDigits == 10
\* OTP seeds of every length 0..MaxSecretLen are tried
MaxSecretLen == 66
\* the seed patterns 0..MaxPattern are tried
MaxPattern == 0
\* the short seed lengths 1..MaxSmallSeed tried against a wrong keystream
MaxSmallSeed == 2
MaxHexCounter == 17
\* the ids Ulid::new() gives out are below MaxUlid, at most MaxCmds futures
\* run at a time, and the clock stops at MaxClock seconds
MaxUlid == 8
MaxCmds == 2
MaxClock == 31

Procs == 1..NProcs

-----------------------------------------------------------------------------
(* Algorithm (algo.rs) *)

Algorithms ==
    {"SHA1", "SHA256", "SHA384", "SHA512", "SHA3_256", "SHA3_384", "SHA3_512"}

\* size in bytes of the output of pbkdf2 and hmac
DigestSize(a) ==
    CASE a = "SHA1" -> 20
      [] a \in {"SHA256", "SHA3_256"} -> 32
      [] a \in {"SHA384", "SHA3_384"} -> 48
      [] a \in {"SHA512", "SHA3_512"} -> 64

\* One byte of a sample digest: seed 0 is the all-zero digest, seed 1 the
\* all-ones digest, the others are spread over the byte values.
SampleByte(seed, i) ==
    CASE seed = 0 -> 0
      [] seed = 1 -> 255
      [] OTHER -> (seed * 89 + i * 151 + seed * i * i * 7) % 256

SampleDigest(seed, n) == [i \in 1..n |-> SampleByte(seed, i)]

\* The digests tried for an algorithm
DigestSamples(a) == {SampleDigest(seed, DigestSize(a)) : seed \in 0..MaxSeed}

\* Algorithm::pbkdf2(key, data, iterations): the query put to the keyed hash
pbkdf2(a, key, data, iterations) == <<"pbkdf2", a, key, data, iterations>>

\* The digests the keyed hash may answer query q with: the one it answered
\* before, or any of the samples.
KdfAnswers(q, samples) == IF q \in DOMAIN kdf THEN {kdf[q]} ELSE samples

\* The table after query q was answered with digest.
KdfRecord(q, digest) ==
    [x \in DOMAIN kdf \cup {q} |-> IF x = q THEN digest ELSE kdf[x]]

-----------------------------------------------------------------------------
(* The bit operators of u8 / usize values *)

RECURSIVE BitAnd(_, _)
BitAnd(x, y) ==
    IF x = 0 \/ y = 0 THEN 0
    ELSE (x % 2) * (y % 2) + 2 * BitAnd(x \div 2, y \div 2)

RECURSIVE XorBits(_, _)
XorBits(x, y) ==
    IF x = 0 THEN y
    ELSE IF y = 0 THEN x
    ELSE ((x + y) % 2) + 2 * XorBits(x \div 2, y \div 2)

\* the XOR of two bytes, tabulated over the nibbles
XorTable == [x \in 0..15 |-> [y \in 0..15 |-> XorBits(x, y)]]
BitXor(x, y) ==
    16 * XorTable[x \div 16][y \div 16] + XorTable[x % 16][y % 16]

-----------------------------------------------------------------------------
(* hex.rs *)

HEX == <<48, 49, 50, 51, 52, 53, 54, 55, 56, 57, 97, 98, 99, 100, 101, 102>>

RECURSIVE hex(_)
hex(num) ==
    LET i == num % 256
        ret == <<HEX[(i \div 16) + 1], HEX[(i % 16) + 1]>>
        rest == num \div 256
    IN  IF rest > 0 THEN hex(rest) \o ret ELSE ret

RECURSIVE StripLeadingZero(_)
StripLeadingZero(h) ==
    IF h[1] = HEX[1] THEN StripLeadingZero(Tail(h)) ELSE h

\* mutant: the digits of hex() are returned as they are, two per byte
to_hex_twoPerByte(num) ==
    IF num < 16 THEN <<HEX[num + 1]>> ELSE hex(num)

\* hex::to(num)
to_hex(num) ==
    IF num < 16 THEN <<HEX[num + 1]>> ELSE StripLeadingZero(hex(num))

-----------------------------------------------------------------------------
(* charset.rs *)

LOWERCASE == [i \in 1..26 |-> 96 + i]
UPPERCASE == [i \in 1..26 |-> 64 + i]
NUMBERS == [i \in 1..10 |-> 47 + i]
SYMBOLS ==
    <<33, 34, 35, 36, 37, 38, 39, 40, 41, 42, 43, 44, 45, 46, 47,
      58, 59, 60, 61, 62, 63, 64,
      91, 92, 93, 94, 95, 96,
      123, 124, 125, 126>>

CharacterSets ==
    {"None", "Lowercase", "Uppercase", "Numbers", "Symbols",
     "LowercaseUppercase", "LowercaseNumbers", "LowercaseSymbols",
     "UppercaseNumbers", "UppercaseSymbols", "NumbersSymbols",
     "LowercaseUppercaseNumbers", "LowercaseUppercaseSymbols",
     "LowercaseNumbersSymbols", "UppercaseNumbersSymbols",
     "LowercaseUppercaseNumbersSymbols"}

\* impl From<CharacterSet> for u8
u8_from(cs) ==
    CASE cs = "None" -> 0
      [] cs = "Lowercase" -> 1
      [] cs = "Uppercase" -> 2
      [] cs = "LowercaseUppercase" -> 3
      [] cs = "Numbers" -> 4
      [] cs = "LowercaseNumbers" -> 5
      [] cs = "UppercaseNumbers" -> 6
      [] cs = "LowercaseUppercaseNumbers" -> 7
      [] cs = "Symbols" -> 8
      [] cs = "LowercaseSymbols" -> 9
      [] cs = "UppercaseSymbols" -> 10
      [] cs = "LowercaseUppercaseSymbols" -> 11
      [] cs = "NumbersSymbols" -> 12
      [] cs = "LowercaseNumbersSymbols" -> 13
      [] cs = "UppercaseNumbersSymbols" -> 14
      [] cs = "LowercaseUppercaseNumbersSymbols" -> 15

is_lower(cs) == BitAnd(u8_from(cs), 1) # 0
is_upper(cs) == BitAnd(u8_from(cs), 2) # 0
is_number(cs) == BitAnd(u8_from(cs), 4) # 0
is_symbol(cs) == BitAnd(u8_from(cs), 8) # 0

get_chars(cs) ==
    CASE cs = "None" -> <<>>
      [] cs = "Lowercase" -> LOWERCASE
      [] cs = "Uppercase" -> UPPERCASE
      [] cs = "Numbers" -> NUMBERS
      [] cs = "Symbols" -> SYMBOLS
      [] cs = "LowercaseUppercase" -> LOWERCASE \o UPPERCASE
      [] cs = "LowercaseNumbers" -> LOWERCASE \o NUMBERS
      [] cs = "LowercaseSymbols" -> LOWERCASE \o SYMBOLS
      [] cs = "UppercaseNumbers" -> UPPERCASE \o NUMBERS
      [] cs = "UppercaseSymbols" -> UPPERCASE \o SYMBOLS
      [] cs = "NumbersSymbols" -> NUMBERS \o SYMBOLS
      [] cs = "LowercaseUppercaseNumbers" -> LOWERCASE \o UPPERCASE \o NUMBERS
      [] cs = "LowercaseUppercaseSymbols" -> LOWERCASE \o UPPERCASE \o SYMBOLS
      [] cs = "LowercaseNumbersSymbols" -> LOWERCASE \o NUMBERS \o SYMBOLS
      [] cs = "UppercaseNumbersSymbols" -> UPPERCASE \o NUMBERS \o SYMBOLS
      [] cs = "LowercaseUppercaseNumbersSymbols" ->
            LOWERCASE \o UPPERCASE \o NUMBERS \o SYMBOLS

\* mutant: one of the selections of two charsets is counted as one
get_charset_count_pairAsOne(cs) ==
    CASE cs = "None" -> 0
      [] cs \in {"Lowercase", "Uppercase", "Numbers", "Symbols",
                 "NumbersSymbols"} -> 1
      [] cs \in {"LowercaseUppercase", "LowercaseNumbers", "LowercaseSymbols",
                 "UppercaseNumbers", "UppercaseSymbols"} -> 2
      [] cs \in {"LowercaseUppercaseNumbers", "LowercaseUppercaseSymbols",
                 "LowercaseNumbersSymbols", "UppercaseNumbersSymbols"} -> 3
      [] cs = "LowercaseUppercaseNumbersSymbols" -> 4

get_charset_count(cs) ==
    CASE cs = "None" -> 0
      [] cs \in {"Lowercase", "Uppercase", "Numbers", "Symbols"} -> 1
      [] cs \in {"LowercaseUppercase", "LowercaseNumbers", "LowercaseSymbols",
                 "UppercaseNumbers", "UppercaseSymbols", "NumbersSymbols"} -> 2
      [] cs \in {"LowercaseUppercaseNumbers", "LowercaseUppercaseSymbols",
                 "LowercaseNumbersSymbols", "UppercaseNumbersSymbols"} -> 3
      [] cs = "LowercaseUppercaseNumbersSymbols" -> 4

get_serials(cs) ==
    CASE cs = "None" -> <<>>
      [] cs = "Lowercase" -> <<"Lowercase">>
      [] cs = "Uppercase" -> <<"Uppercase">>
      [] cs = "Numbers" -> <<"Numbers">>
      [] cs = "Symbols" -> <<"Symbols">>
      [] cs = "LowercaseUppercase" -> <<"Lowercase", "Uppercase">>
      [] cs = "LowercaseNumbers" -> <<"Lowercase", "Numbers">>
      [] cs = "LowercaseSymbols" -> <<"Lowercase", "Symbols">>
      [] cs = "UppercaseNumbers" -> <<"Uppercase", "Numbers">>
      [] cs = "UppercaseSymbols" -> <<"Uppercase", "Symbols">>
      [] cs = "NumbersSymbols" -> <<"Numbers", "Symbols">>
      [] cs = "LowercaseUppercaseNumbers" ->
            <<"Lowercase", "Uppercase", "Numbers">>
      [] cs = "LowercaseUppercaseSymbols" ->
            <<"Lowercase", "Uppercase", "Symbols">>
      [] cs = "LowercaseNumbersSymbols" ->
            <<"Lowercase", "Numbers", "Symbols">>
      [] cs = "UppercaseNumbersSymbols" ->
            <<"Uppercase", "Numbers", "Symbols">>
      [] cs = "LowercaseUppercaseNumbersSymbols" ->
            <<"Lowercase", "Uppercase", "Numbers", "Symbols">>

\* mutant: the uppercase flag answers with the lowercase alphabet
get_serial_lowerForUpper(serial) ==
    CASE serial \in {"Lowercase", "Uppercase"} -> LOWERCASE
      [] serial = "Numbers" -> NUMBERS
      [] serial = "Symbols" -> SYMBOLS

get_serial(serial) ==
    CASE serial = "Lowercase" -> LOWERCASE
      [] serial = "Uppercase" -> UPPERCASE
      [] serial = "Numbers" -> NUMBERS
      [] serial = "Symbols" -> SYMBOLS

\* mutant: the uppercase arm shares the length of the symbols
serial_len_upperWithSymbols(serial) ==
    CASE serial = "Lowercase" -> Len(LOWERCASE)
      [] serial = "Numbers" -> Len(NUMBERS)
      [] serial \in {"Uppercase", "Symbols"} -> Len(SYMBOLS)

serial_len(serial) ==
    CASE serial \in {"Lowercase", "Uppercase"} -> Len(LOWERCASE)
      [] serial = "Numbers" -> Len(NUMBERS)
      [] serial = "Symbols" -> Len(SYMBOLS)

-----------------------------------------------------------------------------
(* entropy.rs *)

\* Entropy::salt_byte(site, login, counter)
salt_byte(site, login, counter) == site \o login \o counter

\* Entropy::salt(site, login, counter)
Entropy_salt(site, login, counter) == salt_byte(site, login, to_hex(counter))

\* BigUint::from_bytes_be: the bytes, most significant first, are packed
\* into the digits of the big integer.  A digit holds three bytes (base
\* 2^24), most significant digit first; the front is padded with zero bytes.
Base == 256 * 256 * 256

from_bytes_be(bytes) ==
    LET pad == (3 - (Len(bytes) % 3)) % 3
        b(i) == IF i <= pad THEN 0 ELSE bytes[i - pad]
    IN  [k \in 1..((Len(bytes) + pad) \div 3) |->
            b(3 * k - 2) * 65536 + b(3 * k - 1) * 256 + b(3 * k)]

\* Entropy::new: the PBKDF2 output read as a big-endian unsigned integer
Entropy_new(digest) == from_bytes_be(digest)

\* BigUint::div_rem by a small divisor: schoolbook long division over the
\* digits, <<quotient, remainder>>.
RECURSIVE LongDiv(_, _, _, _, _)
LongDiv(e, d, i, carry, quot) ==
    IF i > Len(e) THEN <<quot, carry>>
    ELSE LET cur == carry * Base + e[i]
         IN  LongDiv(e, d, i + 1, cur % d, Append(quot, cur \div d))

div_rem(e, d) == LongDiv(e, d, 1, 0, <<>>)

\* mutant: the remainder is returned and the pool is left as it was
consume_poolKept(e, len) == <<e, div_rem(e, len)[2]>>

\* Entropy::consume(len): <<the pool after the call, the remainder returned>>
consume(e, len) == div_rem(e, len)

\* Entropy::new is called by caller p: the pool is the PBKDF2 output
EntropyNew(p, a, master, s, iterations) ==
    /\ LET q == pbkdf2(a, master, s, iterations)
       IN  \E digest \in KdfAnswers(q, DigestSamples(a)) :
             /\ kdf' = KdfRecord(q, digest)
             /\ entropy' = [entropy EXCEPT ![p] = Entropy_new(digest)]
    /\ rem' = [rem EXCEPT ![p] = <<0, 0>>]
    /\ UNCHANGED <<uiVars, otpVars, csVars, lpVars, pc, args, algorithm, salt, password,
                   additional, password_len, idx, result, log>>

\* Entropy::consume(len) is called on caller p's pool with len > 0
EntropyConsume(p, len) ==
    /\ entropy[p] # <<>>
    /\ len > 0
    /\ LET c == consume(entropy[p], len)
       IN  /\ entropy' = [entropy EXCEPT ![p] = c[1]]
           /\ rem' = [rem EXCEPT ![p] = <<len, c[2]>>]
    /\ UNCHANGED <<uiVars, otpVars, csVars, kdf, lpVars, pc, args, algorithm, salt, password,
                   additional, password_len, idx, result, log>>

-----------------------------------------------------------------------------
(* master.rs, settings.rs, errors.rs *)

\* (record fields are written in alphabetical order throughout)
NoLessPass == [algorithm |-> "-", master |-> <<>>]

\* mutant: every algorithm is accepted
Master_new_anyAlgorithm(master, a) == "Ok"

\* Master::new(master, algorithm)
Master_new(master, a) ==
    IF a = "SHA1" THEN "UnsupportedAlgorithm" ELSE "Ok"

\* Option<T>: None is the empty sequence, Some(x) is <<x>>
None == <<>>
Some(x) == <<x>>

\* Settings::get_iterations
get_iterations(settings) ==
    IF settings.iterations = None THEN 100000 ELSE settings.iterations[1]

\* Result<_> with LessPassError: one record shape for every variant
Pending == [alg |-> "-", got |-> 0, lim |-> 0, tag |-> "Pending", val |-> <<>>]
Ok(v) == [alg |-> "-", got |-> 0, lim |-> 0, tag |-> "Ok", val |-> v]
Err(tag) == [alg |-> "-", got |-> 0, lim |-> 0, tag |-> tag, val |-> <<>>]
PasswordTooShort(min, i) ==
    [alg |-> "-", got |-> i, lim |-> min, tag |-> "PasswordTooShort", val |-> <<>>]
PasswordTooLong(max, i, a) ==
    [alg |-> a, got |-> i, lim |-> max, tag |-> "PasswordTooLong", val |-> <<>>]
Panic == [alg |-> "-", got |-> 0, lim |-> 0, tag |-> "Panic", val |-> <<>>]

\* one returned call in the log: the LessPass it was made on, its arguments,
\* the salt and the digest it used, and what it returned
LogEntry(fn, site, login, counter, settings, secret, s, hash, res) ==
    [algorithm |-> lp.algorithm, counter |-> counter, fn |-> fn,
     hash |-> hash, login |-> login, master |-> lp.master, result |-> res,
     salt |-> s, secret |-> secret, settings |-> settings, site |-> site]

-----------------------------------------------------------------------------
(* lib.rs: LessPass::new and LessPass::password *)

\* LessPass::new(master, algorithm); no call is running on the old object
LessPassNew(master, a) ==
    /\ \A p \in Procs : pc[p] = "idle"
    /\ newArgs' = [algorithm |-> a, master |-> master]
    /\ newResult' = Master_new(master, a)
    /\ lp' = IF Master_new(master, a) = "Ok"
             THEN [algorithm |-> a, master |-> master]
             ELSE lp
    /\ UNCHANGED <<uiVars, otpVars, csVars, kdf, pc, args, pwLocals, result, log>>

\* the effective algorithm: the settings' override, else the master's default
EffectiveAlgorithm(settings) ==
    IF settings.algorithm # None THEN settings.algorithm[1]
    ELSE lp.algorithm

\* mutant: the charset test is made before the length tests
Validate_charsetFirst(a, i, cs) ==
    IF a = "SHA1" THEN Err("UnsupportedAlgorithm")
    ELSE IF get_charset_count(cs) = 0 THEN Err("NoCharsetSelected")
    ELSE IF i < 5 THEN PasswordTooShort(5, i)
    ELSE IF a \in {"SHA512", "SHA3_512"} /\ i > 70 THEN PasswordTooLong(70, i, a)
    ELSE IF a \in {"SHA384", "SHA3_384"} /\ i > 52 THEN PasswordTooLong(52, i, a)
    ELSE IF a \in {"SHA256", "SHA3_256"} /\ i > 35 THEN PasswordTooLong(35, i, a)
    ELSE Pending

\* mutant: the ceilings are exclusive
Validate_exclusiveCeiling(a, i, cs) ==
    IF a = "SHA1" THEN Err("UnsupportedAlgorithm")
    ELSE IF i < 5 THEN PasswordTooShort(5, i)
    ELSE IF a \in {"SHA512", "SHA3_512"} /\ i >= 70 THEN PasswordTooLong(70, i, a)
    ELSE IF a \in {"SHA384", "SHA3_384"} /\ i >= 52 THEN PasswordTooLong(52, i, a)
    ELSE IF a \in {"SHA256", "SHA3_256"} /\ i >= 35 THEN PasswordTooLong(35, i, a)
    ELSE IF get_charset_count(cs) = 0 THEN Err("NoCharsetSelected")
    ELSE Pending

\* The match on (algorithm, password length) and the charset test that open
\* password(): the error returned, or Pending when every check passes.
Validate(a, i, cs) ==
    IF a = "SHA1" THEN Err("UnsupportedAlgorithm")
    ELSE IF i < 5 THEN PasswordTooShort(5, i)
    ELSE IF a \in {"SHA512", "SHA3_512"} /\ i > 70 THEN PasswordTooLong(70, i, a)
    ELSE IF a \in {"SHA384", "SHA3_384"} /\ i > 52 THEN PasswordTooLong(52, i, a)
    ELSE IF a \in {"SHA256", "SHA3_256"} /\ i > 35 THEN PasswordTooLong(35, i, a)
    ELSE IF get_charset_count(cs) = 0 THEN Err("NoCharsetSelected")
    ELSE Pending

\* password() is entered by caller p with its arguments
PasswordCall(p, site, login, counter, settings) ==
    /\ lp # NoLessPass
    /\ pc[p] = "idle"
    /\ Len(log) < MaxCalls
    /\ args' = [args EXCEPT ![p] = [counter |-> counter, entry |-> "password",
                                     given |-> settings, login |-> login,
                                     settings |-> settings, site |-> site]]
    /\ pc' = [pc EXCEPT ![p] = "validate"]
    /\ result' = [result EXCEPT ![p] = Pending]
    /\ UNCHANGED <<uiVars, otpVars, csVars, kdf, lpVars, pwLocals, log>>

\* Settings::set_algorithm on a Settings value
set_algorithm(settings, a) == [settings EXCEPT !.algorithm = Some(a)]

\* mutant: a length of exactly 35 or 52 takes the next algorithm
from_length_exclusive(l) ==
    IF l < 35 THEN "SHA256"
    ELSE IF l < 52 THEN "SHA384"
    ELSE "SHA512"

\* the match on settings.get_password_len() of
\* password_with_algorithm_from_length
from_length(l) ==
    IF l <= 35 THEN "SHA256"
    ELSE IF l <= 52 THEN "SHA384"
    ELSE "SHA512"

\* password_with_algorithm_from_length() is entered by caller p: it copies
\* the settings it was given, sets the algorithm of the copy and calls
\* password() with the copy
PasswordFromLengthCall(p, site, login, counter, settings) ==
    /\ lp # NoLessPass
    /\ pc[p] = "idle"
    /\ Len(log) < MaxCalls
    /\ args' = [args EXCEPT ![p] =
                  [counter |-> counter,
                   entry |-> "password_with_algorithm_from_length",
                   given |-> settings, login |-> login,
                   settings |-> set_algorithm(settings,
                                              from_length(settings.pass_len)),
                   site |-> site]]
    /\ pc' = [pc EXCEPT ![p] = "validate"]
    /\ result' = [result EXCEPT ![p] = Pending]
    /\ UNCHANGED <<uiVars, otpVars, csVars, kdf, lpVars, pwLocals, log>>

\* lines 268-301: parameter validation
PasswordValidate(p) ==
    /\ pc[p] = "validate"
    /\ LET a == EffectiveAlgorithm(args[p].settings)
           v == Validate(a, args[p].settings.pass_len, args[p].settings.char_set)
       IN  /\ algorithm' = [algorithm EXCEPT ![p] = a]
           /\ result' = [result EXCEPT ![p] = v]
           /\ pc' = [pc EXCEPT ![p] = IF v = Pending THEN "derive" ELSE "done"]
    /\ UNCHANGED <<uiVars, otpVars, csVars, kdf, lpVars, args, salt, entropy, password,
                   additional, password_len, idx, rem, log>>

\* mutant: the mandatory characters are not left room for
max_len_whole(settings) == settings.pass_len

\* max_len = password length - number of charsets (usize subtraction)
max_len(settings) == settings.pass_len - get_charset_count(settings.char_set)

\* mutant: the pool an earlier call left behind is used when there is one
PasswordDerive_keepPool(p) ==
    /\ pc[p] = "derive"
    /\ LET s == Entropy_salt(args[p].site, args[p].login, args[p].counter)
           q == pbkdf2(algorithm[p], lp.master, s,
                       get_iterations(args[p].settings))
       IN  \E digest \in KdfAnswers(q, DigestSamples(algorithm[p])) :
             /\ kdf' = KdfRecord(q, digest)
             /\ salt' = [salt EXCEPT ![p] = s]
             /\ entropy' = [entropy EXCEPT ![p] =
                               IF entropy[p] # <<>> THEN entropy[p]
                               ELSE Entropy_new(digest)]
    /\ password' = [password EXCEPT ![p] = <<>>]
    /\ additional' = [additional EXCEPT ![p] = <<>>]
    /\ idx' = [idx EXCEPT ![p] = 0]
    /\ pc' = [pc EXCEPT ![p] = "step1"]
    /\ UNCHANGED <<uiVars, otpVars, csVars, lpVars, args, algorithm, password_len, rem, result,
                   log>>

\* mutant: one pool is kept for every caller
PasswordDerive_onePool(p) ==
    /\ pc[p] = "derive"
    /\ LET s == Entropy_salt(args[p].site, args[p].login, args[p].counter)
           q == pbkdf2(algorithm[p], lp.master, s,
                       get_iterations(args[p].settings))
       IN  \E digest \in KdfAnswers(q, DigestSamples(algorithm[p])) :
             /\ kdf' = KdfRecord(q, digest)
             /\ salt' = [salt EXCEPT ![p] = s]
             /\ entropy' = [r \in Procs |-> Entropy_new(digest)]
    /\ password' = [password EXCEPT ![p] = <<>>]
    /\ additional' = [additional EXCEPT ![p] = <<>>]
    /\ idx' = [idx EXCEPT ![p] = 0]
    /\ pc' = [pc EXCEPT ![p] = "step1"]
    /\ UNCHANGED <<uiVars, otpVars, csVars, lpVars, args, algorithm, password_len, rem, result,
                   log>>

\* lines 303-315: the salt, the entropy and the empty working buffer
PasswordDerive(p) ==
    /\ pc[p] = "derive"
    /\ LET s == Entropy_salt(args[p].site, args[p].login, args[p].counter)
           q == pbkdf2(algorithm[p], lp.master, s,
                       get_iterations(args[p].settings))
       IN  \E digest \in KdfAnswers(q, DigestSamples(algorithm[p])) :
             /\ kdf' = KdfRecord(q, digest)
             /\ salt' = [salt EXCEPT ![p] = s]
             /\ entropy' = [entropy EXCEPT ![p] = Entropy_new(digest)]
    /\ password' = [password EXCEPT ![p] = <<>>]
    /\ additional' = [additional EXCEPT ![p] = <<>>]
    /\ idx' = [idx EXCEPT ![p] = 0]
    /\ pc' = [pc EXCEPT ![p] = "step1"]
    /\ UNCHANGED <<uiVars, otpVars, csVars, lpVars, args, algorithm, password_len, rem, result,
                   log>>

\* Vec::insert(index, element); it panics when index > len
Insert(v, index, element) ==
    SubSeq(v, 1, index) \o <<element>> \o SubSeq(v, index + 1, Len(v))

\* a panic inside password(): the call never returns a value
PasswordPanic(p) ==
    /\ result' = [result EXCEPT ![p] = Panic]
    /\ pc' = [pc EXCEPT ![p] = "done"]
    /\ UNCHANGED <<uiVars, otpVars, csVars, entropy, password, additional, password_len, idx, rem>>

\* Step 1, one turn of the loop: a character of the pool is appended
PasswordStep1(p) ==
    /\ pc[p] = "step1"
    /\ LET chars == get_chars(args[p].settings.char_set)
           charset_len == Len(chars)
       IN  IF idx[p] < max_len(args[p].settings)
           THEN IF charset_len = 0
                THEN PasswordPanic(p)
                ELSE LET c == consume(entropy[p], charset_len)
                     IN  /\ entropy' = [entropy EXCEPT ![p] = c[1]]
                         /\ rem' = [rem EXCEPT ![p] = <<charset_len, c[2]>>]
                         /\ password' = [password EXCEPT
                                           ![p] = Append(@, chars[c[2] + 1])]
                         /\ idx' = [idx EXCEPT ![p] = @ + 1]
                         /\ UNCHANGED <<uiVars, otpVars, csVars, pc, additional, password_len, result>>
           ELSE /\ pc' = [pc EXCEPT ![p] = "step2"]
                /\ idx' = [idx EXCEPT ![p] = 0]
                /\ UNCHANGED <<uiVars, otpVars, csVars, entropy, rem, password, additional,
                               password_len, result>>
    /\ UNCHANGED <<uiVars, otpVars, csVars, kdf, lpVars, args, algorithm, salt, log>>

\* Step 2, one turn of the loop: one character of the next charset is chosen
PasswordStep2(p) ==
    /\ pc[p] = "step2"
    /\ LET serials == get_serials(args[p].settings.char_set)
       IN  IF idx[p] < Len(serials)
           THEN LET serial == serials[idx[p] + 1]
                    c == consume(entropy[p], serial_len(serial))
                IN  IF c[2] >= Len(get_serial(serial))
                    THEN PasswordPanic(p)
                    ELSE /\ entropy' = [entropy EXCEPT ![p] = c[1]]
                         /\ rem' = [rem EXCEPT ![p] = <<serial_len(serial), c[2]>>]
                         /\ additional' = [additional EXCEPT
                               ![p] = Append(@, get_serial(serial)[c[2] + 1])]
                         /\ idx' = [idx EXCEPT ![p] = @ + 1]
                         /\ UNCHANGED <<uiVars, otpVars, csVars, pc, password, password_len, result>>
           ELSE /\ pc' = [pc EXCEPT ![p] = "step3"]
                /\ idx' = [idx EXCEPT ![p] = 0]
                /\ password_len' = [password_len EXCEPT ![p] = Len(password[p])]
                /\ UNCHANGED <<uiVars, otpVars, csVars, entropy, rem, password, additional, result>>
    /\ UNCHANGED <<uiVars, otpVars, csVars, kdf, lpVars, args, algorithm, salt, log>>

\* mutant: the position is drawn among the current length plus one
PasswordStep3_lenPlusOne(p) ==
    /\ pc[p] = "step3"
    /\ IF idx[p] < Len(additional[p])
       THEN IF password_len[p] = 0
            THEN PasswordPanic(p)
            ELSE LET c == consume(entropy[p], password_len[p] + 1)
                 IN  IF c[2] > Len(password[p])
                     THEN PasswordPanic(p)
                     ELSE /\ entropy' = [entropy EXCEPT ![p] = c[1]]
                          /\ rem' = [rem EXCEPT ![p] = <<password_len[p] + 1, c[2]>>]
                          /\ password' = [password EXCEPT
                                ![p] = Insert(@, c[2], additional[p][idx[p] + 1])]
                          /\ password_len' = [password_len EXCEPT ![p] = @ + 1]
                          /\ idx' = [idx EXCEPT ![p] = @ + 1]
                          /\ UNCHANGED <<uiVars, otpVars, csVars, pc, additional, result>>
       ELSE /\ pc' = [pc EXCEPT ![p] = "return"]
            /\ UNCHANGED <<uiVars, otpVars, csVars, entropy, rem, password, additional, password_len,
                           idx, result>>
    /\ UNCHANGED <<uiVars, otpVars, csVars, kdf, lpVars, args, algorithm, salt, log>>

\* Step 3, one turn of the loop: the next chosen character is inserted
PasswordStep3(p) ==
    /\ pc[p] = "step3"
    /\ IF idx[p] < Len(additional[p])
       THEN IF password_len[p] = 0
            THEN PasswordPanic(p)
            ELSE LET c == consume(entropy[p], password_len[p])
                 IN  IF c[2] > Len(password[p])
                     THEN PasswordPanic(p)
                     ELSE /\ entropy' = [entropy EXCEPT ![p] = c[1]]
                          /\ rem' = [rem EXCEPT ![p] = <<password_len[p], c[2]>>]
                          /\ password' = [password EXCEPT
                                ![p] = Insert(@, c[2], additional[p][idx[p] + 1])]
                          /\ password_len' = [password_len EXCEPT ![p] = @ + 1]
                          /\ idx' = [idx EXCEPT ![p] = @ + 1]
                          /\ UNCHANGED <<uiVars, otpVars, csVars, pc, additional, result>>
       ELSE /\ pc' = [pc EXCEPT ![p] = "return"]
            /\ UNCHANGED <<uiVars, otpVars, csVars, entropy, rem, password, additional, password_len,
                           idx, result>>
    /\ UNCHANGED <<uiVars, otpVars, csVars, kdf, lpVars, args, algorithm, salt, log>>

\* String::from_utf8 accepts the buffer when it holds ASCII bytes only
from_utf8(v) ==
    IF \A i \in 1..Len(v) : v[i] < 128 THEN Ok(v) ELSE Err("FromUtf8Error")

\* line 343: the buffer is returned as a String
PasswordReturn(p) ==
    /\ pc[p] = "return"
    /\ result' = [result EXCEPT ![p] = from_utf8(password[p])]
    /\ pc' = [pc EXCEPT ![p] = "done"]
    /\ UNCHANGED <<uiVars, otpVars, csVars, kdf, lpVars, args, pwLocals, log>>

\* the caller takes what password() or password_with_algorithm_from_length()
\* returned and is free for its next call; the log keeps the settings the
\* caller passed
PasswordTaken(p) ==
    /\ pc[p] = "done"
    /\ log' = Append(log, LogEntry(args[p].entry, args[p].site, args[p].login,
                                   args[p].counter, args[p].given, <<>>,
                                   salt[p], <<>>, result[p]))
    /\ pc' = [pc EXCEPT ![p] = "idle"]
    /\ UNCHANGED <<uiVars, otpVars, csVars, kdf, lpVars, args, pwLocals, result>>

\* one step of a running password() call
PasswordRun(p) ==
    \/ PasswordValidate(p)
    \/ PasswordDerive(p)
    \/ PasswordStep1(p)
    \/ PasswordStep2(p)
    \/ PasswordStep3(p)
    \/ PasswordReturn(p)

-----------------------------------------------------------------------------
(* lib.rs: LessPass::secret_hotp, secret_totp and secret_otp *)

\* mutant: an empty seed is taken for a seed to encrypt
Classify_zeroAllowed(n) ==
    IF n \in 0..31 THEN <<"SHA256", TRUE>>
    ELSE IF n = 32 THEN <<"SHA256", FALSE>>
    ELSE IF n \in 33..63 THEN <<"SHA512", TRUE>>
    ELSE IF n = 64 THEN <<"SHA512", FALSE>>
    ELSE <<"-", FALSE>>

\* the match on secret.len(): <<algorithm, encrypt>>; "-" is the arm that
\* returns InvalidLength
Classify(n) ==
    IF n \in 1..31 THEN <<"SHA256", TRUE>>
    ELSE IF n = 32 THEN <<"SHA256", FALSE>>
    ELSE IF n \in 33..63 THEN <<"SHA512", TRUE>>
    ELSE IF n = 64 THEN <<"SHA512", FALSE>>
    ELSE <<"-", FALSE>>

\* start = hash.last() & len, with len = hash.len() - 1
StartOf(hash) == BitAnd(hash[Len(hash)], (Len(hash) - 1) % 256)

\* the encrypting loop: byte i of the seed is XORed into position
\* (start + i) % len of the digest (positions counted from 0)
RECURSIVE EncryptLoop(_, _, _, _, _)
EncryptLoop(hash, secret, start, len, i) ==
    IF i >= Len(secret) THEN hash
    ELSE LET pos == (start + i) % len
         IN  EncryptLoop([hash EXCEPT ![pos + 1] = BitXor(@, secret[i + 1])],
                         secret, start, len, i + 1)

\* mutant: the positions wrap at the digest's length, not one before it
otp_encrypt_wrapAtLen(hash, secret) ==
    LET len == Len(hash) - 1
    IN  EncryptLoop([hash EXCEPT ![len + 1] = BitXor(@, Len(secret) % 256)],
                    secret, StartOf(hash), len + 1, 0)

\* the encrypt branch: the last byte carries the seed's length
otp_encrypt(hash, secret) ==
    LET len == Len(hash) - 1
    IN  EncryptLoop([hash EXCEPT ![len + 1] = BitXor(@, Len(secret) % 256)],
                    secret, StartOf(hash), len, 0)

\* mutant: the start offset is read from the stored value's last byte
otp_decrypt_startFromSecret(hash, secret) ==
    LET len == Len(hash) - 1
        start == BitAnd(secret[Len(secret)], len % 256)
        pass_length == BitXor(secret[Len(secret)], hash[len + 1])
    IN  [i \in 1..pass_length |->
            LET pos == (start + i - 1) % len
            IN  BitXor(hash[pos + 1], secret[pos + 1])]

\* mutant: the positions wrap at the length of the hash
otp_decrypt_wrapAtLen(hash, secret) ==
    LET len == Len(hash) - 1
        start == StartOf(hash)
        pass_length == BitXor(secret[Len(secret)], hash[len + 1])
    IN  [i \in 1..pass_length |->
            LET pos == (start + i - 1) % (len + 1)
            IN  BitXor(hash[pos + 1], secret[pos + 1])]

\* the decrypt branch: the length is recovered from the last byte, then
\* pass_length bytes are read back from the positions (start + i) % len
otp_decrypt(hash, secret) ==
    LET len == Len(hash) - 1
        start == StartOf(hash)
        pass_length == BitXor(secret[Len(secret)], hash[len + 1])
    IN  [i \in 1..pass_length |->
            LET pos == (start + i - 1) % len
            IN  BitXor(hash[pos + 1], secret[pos + 1])]

\* the prefixes "hotp" and "totp"
PrefixOf(fn) ==
    IF fn = "secret_hotp" THEN <<104, 111, 116, 112>>
    ELSE <<116, 111, 116, 112>>

\* secret_hotp / secret_totp, which call secret_otp with their prefix: the
\* whole call, answered by a digest of `samples` when the query is new
SecretOtp(p, fn, site, login, secret, samples) ==
    /\ lp # NoLessPass
    /\ pc[p] = "idle"
    /\ Len(log) < MaxCalls
    /\ LET c == Classify(Len(secret))
           a == c[1]
           s == salt_byte(PrefixOf(fn), site, login)
           q == pbkdf2(a, lp.master, s, 100000)
       IN  IF a = "-"
           THEN /\ result' = [result EXCEPT ![p] = Err("InvalidLength")]
                /\ log' = Append(log, LogEntry(fn, site, login, 0, None, secret,
                                               <<>>, <<>>, Err("InvalidLength")))
                /\ kdf' = kdf
           ELSE \E hash \in KdfAnswers(q,
                               {d \in samples : Len(d) = DigestSize(a)}) :
                    LET out == IF c[2] THEN otp_encrypt(hash, secret)
                               ELSE otp_decrypt(hash, secret)
                    IN  /\ kdf' = KdfRecord(q, hash)
                        /\ result' = [result EXCEPT ![p] = Ok(out)]
                        /\ log' = Append(log, LogEntry(fn, site, login, 0, None,
                                                       secret, s, hash, Ok(out)))
    /\ UNCHANGED <<uiVars, otpVars, csVars, lpVars, pc, args, pwLocals>>

-----------------------------------------------------------------------------
(* master.rs: Master::fingerprint; fingerprint.rs; lib.rs: get_fingerprint *)

\* Algorithm::hmac(key, data): the query put to the keyed hash
hmac(a, key, data) == <<"hmac", a, key, data>>

COLORS ==
    <<"#000000", "#074750", "#009191", "#FF6CB6", "#FFB5DA", "#490092",
      "#006CDB", "#B66DFF", "#6DB5FE", "#B5DAFE", "#920000", "#924900",
      "#DB6D00", "#24FE23">>

ICONS ==
    <<"fa-hashtag", "fa-heart", "fa-hotel", "fa-university", "fa-plug",
      "fa-ambulance", "fa-bus", "fa-car", "fa-plane", "fa-rocket", "fa-ship",
      "fa-subway", "fa-truck", "fa-jpy", "fa-eur", "fa-btc", "fa-usd",
      "fa-gbp", "fa-archive", "fa-area-chart", "fa-bed", "fa-beer", "fa-bell",
      "fa-binoculars", "fa-birthday-cake", "fa-bomb", "fa-briefcase",
      "fa-bug", "fa-camera", "fa-cart-plus", "fa-certificate", "fa-coffee",
      "fa-cloud", "fa-coffee", "fa-comment", "fa-cube", "fa-cutlery",
      "fa-database", "fa-diamond", "fa-exclamation-circle", "fa-eye",
      "fa-flag", "fa-flask", "fa-futbol-o", "fa-gamepad",
      "fa-graduation-cap">>

\* the value of one hexadecimal digit character; 16 when it is none
HexValue(c) ==
    IF c \in 48..57 THEN c - 48
    ELSE IF c \in 65..70 THEN c - 55
    ELSE IF c \in 97..102 THEN c - 87
    ELSE 16

\* u64::from_str_radix(str, 16) of a string of hexadecimal digits
RECURSIVE from_str_radix(_)
from_str_radix(str) ==
    IF str = <<>> THEN 0
    ELSE 16 * from_str_radix(SubSeq(str, 1, Len(str) - 1))
         + HexValue(str[Len(str)])

get_color(color) == COLORS[(from_str_radix(color) % Len(COLORS)) + 1]
get_icon(icon) == ICONS[(from_str_radix(icon) % Len(ICONS)) + 1]

\* fingerprint::get_fingerprint: three (color, icon) pairs from the first
\* eighteen characters, six characters each
get_fingerprint(fingerprint) ==
    LET hash1 == SubSeq(fingerprint, 1, 6)
        hash2 == SubSeq(fingerprint, 7, 12)
        hash3 == SubSeq(fingerprint, 13, 18)
    IN  <<get_color(hash1), get_icon(hash1),
          get_color(hash2), get_icon(hash2),
          get_color(hash3), get_icon(hash3)>>

\* write!("{:X}", byte): upper-case hexadecimal digits, no leading zero
UpperHex(byte) ==
    LET digit(d) == IF d < 10 THEN 48 + d ELSE 55 + d
    IN  IF byte < 16 THEN <<digit(byte)>>
        ELSE <<digit(byte \div 16), digit(byte % 16)>>

\* the string the loop over the digest's bytes writes
RECURSIVE WriteHex(_)
WriteHex(finger) ==
    IF finger = <<>> THEN <<>>
    ELSE UpperHex(Head(finger)) \o WriteHex(Tail(finger))

\* LessPass::get_fingerprint(salt): the whole call
GetFingerprint(p, fsalt, samples) ==
    /\ lp # NoLessPass
    /\ pc[p] = "idle"
    /\ Len(log) < MaxCalls
    /\ LET q == hmac(lp.algorithm, lp.master, fsalt)
       IN  \E finger \in KdfAnswers(q, samples) :
               LET s == WriteHex(finger)
                   res == IF Len(s) < 18 THEN Panic ELSE Ok(get_fingerprint(s))
               IN  /\ kdf' = KdfRecord(q, finger)
                   /\ result' = [result EXCEPT ![p] = res]
                   /\ log' = Append(log, LogEntry("get_fingerprint", <<>>, <<>>,
                                                  0, None, <<>>, fsalt, finger,
                                                  res))
    /\ UNCHANGED <<uiVars, otpVars, csVars, lpVars, pc, args, pwLocals>>

-----------------------------------------------------------------------------
(* otp.rs: Otp::new, Otp::hotp and Otp::totp_from_ts *)

NoOtp == [algorithm |-> "-", digits |-> 0, period |-> 0, secret |-> <<>>,
          timestamp |-> 0]

\* a u64 as four 16-bit digits, most significant first
U64(n) == <<0, 0, n \div 65536, n % 65536>>

\* mutant: the subtraction stops at zero
wrapping_sub_saturating(a, b) ==
    IF a >= b THEN U64(a - b) ELSE U64(0)

\* a - b in u64 arithmetic, wrapping below zero (a, b < 2^31)
wrapping_sub(a, b) ==
    IF a >= b THEN U64(a - b)
    ELSE LET k == b - a - 1
         IN  <<65535, 65535, 65535 - (k \div 65536), 65535 - (k % 65536)>>

\* u64 division by a small divisor, digit by digit
RECURSIVE U64DivLoop(_, _, _, _, _)
U64DivLoop(x, d, i, carry, quot) ==
    IF i > Len(x) THEN quot
    ELSE LET cur == carry * 65536 + x[i]
         IN  U64DivLoop(x, d, i + 1, cur % d, Append(quot, cur \div d))

U64Div(x, d) == U64DivLoop(x, d, 1, 0, <<>>)

\* u64::to_be_bytes
to_be_bytes(x) ==
    [k \in 1..8 |-> IF k % 2 = 1 THEN x[(k + 1) \div 2] \div 256
                    ELSE x[k \div 2] % 256]

NoOtpArgs == [algorithm |-> None, digits |-> 0, period |-> None,
              secret |-> <<>>, timestamp |-> None]

\* mutant: the digits are tested before the algorithm
new_match_digitsFirst(a, digits) ==
    IF ~(digits > 5 /\ digits < 10) THEN "InvalidLength"
    ELSE IF a = None \/ a[1] \in {"SHA1", "SHA256", "SHA512"} THEN "Ok"
    ELSE "UnsupportedAlgorithm"

\* the match on (algorithm, digits) of Otp::new: the arm taken
new_match(a, digits) ==
    LET supported == a = None \/ a[1] \in {"SHA1", "SHA256", "SHA512"}
    IN  IF supported /\ digits > 5 /\ digits < 10 THEN "Ok"
        ELSE IF supported THEN "InvalidLength"
        ELSE "UnsupportedAlgorithm"

\* mutant: a period of 0 is stored as given
new_period_asGiven(period) == IF period = None THEN 30 ELSE period[1]

\* period.unwrap_or(30).max(1)
new_period(period) ==
    LET v == IF period = None THEN 30 ELSE period[1]
    IN  IF v < 1 THEN 1 ELSE v

\* Otp::new
OtpNew(secret, digits, a, period, timestamp) ==
    /\ otpArgs' = [algorithm |-> a, digits |-> digits, period |-> period,
                   secret |-> secret, timestamp |-> timestamp]
    /\ otpNew' = new_match(a, digits)
    /\ otp' = IF new_match(a, digits) = "Ok"
              THEN [algorithm |-> IF a = None THEN "SHA1" ELSE a[1],
                    digits |-> digits,
                    period |-> new_period(period),
                    secret |-> secret,
                    timestamp |-> IF timestamp = None THEN 0
                                  ELSE timestamp[1]]
              ELSE otp
    /\ UNCHANGED <<uiVars, kdf, lessVars, csVars, otpLog>>

RECURSIVE Pow10(_)
Pow10(n) == IF n = 0 THEN 1 ELSE 10 * Pow10(n - 1)

\* the decimal digits of n, as characters
RECURSIVE ToDecimal(_)
ToDecimal(n) ==
    IF n < 10 THEN <<48 + n>>
    ELSE Append(ToDecimal(n \div 10), 48 + (n % 10))

\* mutant: the token is not padded
format_pad_none(n, width) == ToDecimal(n)

\* format!("{:0>1$}", n, width): n in decimal, zeros in front up to width
format_pad(n, width) ==
    LET d == ToDecimal(n)
    IN  IF Len(d) >= width THEN d
        ELSE [i \in 1..(width - Len(d)) |-> 48] \o d

\* the dynamic truncation: four bytes from the offset the last byte's low
\* nibble names, the top bit masked off
truncate(digest) ==
    LET off == BitAnd(digest[Len(digest)], 15)
    IN  BitAnd(digest[off + 1], 127) * 16777216
        + BitAnd(digest[off + 2], 255) * 65536
        + BitAnd(digest[off + 3], 255) * 256
        + BitAnd(digest[off + 4], 255)

\* one entry of otpLog
OtpEntry(fn, arg, counter, digest, res) ==
    [arg |-> arg, counter |-> counter, digest |-> digest, fn |-> fn,
     otp |-> otp, result |-> res]

\* the body of hotp(counter), called as fn with argument arg
HotpBody(fn, arg, counter, samples) ==
    LET q == hmac(otp.algorithm, otp.secret, to_be_bytes(counter))
    IN  \E digest \in KdfAnswers(q, {d \in samples :
                                       Len(d) = DigestSize(otp.algorithm)}) :
            LET binary == truncate(digest) % Pow10(otp.digits)
            IN  /\ kdf' = KdfRecord(q, digest)
                /\ otpLog' = Append(otpLog,
                                    OtpEntry(fn, arg, counter, digest,
                                             Ok(format_pad(binary, otp.digits))))

\* Otp::hotp(counter)
Hotp(counter, samples) ==
    /\ otpNew = "Ok"
    /\ Len(otpLog) < MaxOtpCalls
    /\ HotpBody("hotp", counter, U64(counter), samples)
    /\ UNCHANGED <<uiVars, lessVars, csVars, otp, otpNew, otpArgs>>

\* mutant: the epoch offset is not subtracted
TotpCounter_noOffset(t) == U64Div(U64(t), otp.period)

\* the counter totp_from_ts gives hotp when the subtraction wraps or does not
\* overflow
TotpCounter(t) == U64Div(wrapping_sub(t, otp.timestamp), otp.period)

\* Otp::totp_from_ts(timestamp); the subtraction of a later epoch offset
\* panics in a build with overflow checks and wraps in one without
TotpFromTs(t, samples) ==
    /\ otpNew = "Ok"
    /\ Len(otpLog) < MaxOtpCalls
    /\ \E outcome \in (IF t >= otp.timestamp THEN {"exact"}
                       ELSE {"panic", "wrap"}) :
          IF outcome = "panic"
          THEN /\ otpLog' = Append(otpLog, OtpEntry("totp_from_ts", t, <<>>,
                                                    <<>>, Panic))
               /\ kdf' = kdf
          ELSE HotpBody("totp_from_ts", t, TotpCounter(t), samples)
    /\ UNCHANGED <<uiVars, lessVars, csVars, otp, otpNew, otpArgs>>

-----------------------------------------------------------------------------
(* charset.rs: TryFrom<u8> for CharacterSet and the set_* methods *)

\* mutant: the arms of 0b0101 and 0b0110 are exchanged
try_from_armsExchanged(value) ==
    CASE value = 0 -> Ok("None")
      [] value = 1 -> Ok("Lowercase")
      [] value = 2 -> Ok("Uppercase")
      [] value = 3 -> Ok("LowercaseUppercase")
      [] value = 4 -> Ok("Numbers")
      [] value = 5 -> Ok("UppercaseNumbers")
      [] value = 6 -> Ok("LowercaseNumbers")
      [] value = 7 -> Ok("LowercaseUppercaseNumbers")
      [] value = 8 -> Ok("Symbols")
      [] value = 9 -> Ok("LowercaseSymbols")
      [] value = 10 -> Ok("UppercaseSymbols")
      [] value = 11 -> Ok("LowercaseUppercaseSymbols")
      [] value = 12 -> Ok("NumbersSymbols")
      [] value = 13 -> Ok("LowercaseNumbersSymbols")
      [] value = 14 -> Ok("UppercaseNumbersSymbols")
      [] value = 15 -> Ok("LowercaseUppercaseNumbersSymbols")
      [] OTHER -> Err("Unsupported value")

\* CharacterSet::try_from(value: u8)
try_from(value) ==
    CASE value = 0 -> Ok("None")
      [] value = 1 -> Ok("Lowercase")
      [] value = 2 -> Ok("Uppercase")
      [] value = 3 -> Ok("LowercaseUppercase")
      [] value = 4 -> Ok("Numbers")
      [] value = 5 -> Ok("LowercaseNumbers")
      [] value = 6 -> Ok("UppercaseNumbers")
      [] value = 7 -> Ok("LowercaseUppercaseNumbers")
      [] value = 8 -> Ok("Symbols")
      [] value = 9 -> Ok("LowercaseSymbols")
      [] value = 10 -> Ok("UppercaseSymbols")
      [] value = 11 -> Ok("LowercaseUppercaseSymbols")
      [] value = 12 -> Ok("NumbersSymbols")
      [] value = 13 -> Ok("LowercaseNumbersSymbols")
      [] value = 14 -> Ok("UppercaseNumbersSymbols")
      [] value = 15 -> Ok("LowercaseUppercaseNumbersSymbols")
      [] OTHER -> Err("Unsupported value")

\* u8 | u8 and !u8
BitOr(x, y) == x + y - BitAnd(x, y)
BitNot(x) == 255 - x

\* mutant: DontUse masks with the bit itself
set_charset_num_noComplement(cs, to_use, charset) ==
    IF to_use = "Use" THEN BitOr(u8_from(cs), charset)
    ELSE BitAnd(u8_from(cs), charset)

\* the match of set_charset: the byte with the flag set or cleared
set_charset_num(cs, to_use, charset) ==
    IF to_use = "Use" THEN BitOr(u8_from(cs), charset)
    ELSE BitAnd(u8_from(cs), BitNot(charset))

\* the value set_charset leaves in *self: the byte decoded; expect() panics
\* when it does not decode
set_charset_value(cs, to_use, charset) ==
    LET r == try_from(set_charset_num(cs, to_use, charset))
    IN  IF r.tag = "Ok" THEN r.val ELSE "panicked"

\* set_charset(to_use, charset) on the CharacterSet cset
set_charset(to_use, charset) ==
    /\ cset' = set_charset_value(cset, to_use, charset)
    /\ UNCHANGED <<uiVars, kdf, lessVars, otpVars, csIn, csOut>>

set_lower(lower) == set_charset(lower, 1)
set_upper(upper) == set_charset(upper, 2)
set_number(number) == set_charset(number, 4)
set_symbol(symbol) == set_charset(symbol, 8)

\* a caller decodes a byte: CharacterSet::try_from(value)
TryFromU8(value) ==
    /\ csIn' = value
    /\ csOut' = try_from(value)
    /\ UNCHANGED <<uiVars, kdf, lessVars, otpVars, cset>>

-----------------------------------------------------------------------------
(* The inputs tried *)

Masters == {<<49, 50, 51>>}
\* the default algorithms a LessPass is asked for: the rejected one, one of
\* the lowest and one of the highest ceiling
NewAlgorithms == {"SHA1", "SHA256", "SHA3_512"}
Sites == {<<115>>}
Logins == {<<108>>}
Ceilings == {35, 52, 70}
PassLens ==
    (0..MaxSmallLen) \cup Ceilings \cup {c + 1 : c \in Ceilings} \cup {255}
OptAlgorithms == {None} \cup {Some(a) : a \in Algorithms}

SettingsOf(len, cs, a) ==
    [algorithm |-> a, char_set |-> cs, iterations |-> None, pass_len |-> len]

NoArgs == [counter |-> 0, entry |-> "-",
           given |-> SettingsOf(0, "None", None), login |-> <<>>,
           settings |-> SettingsOf(0, "None", None), site |-> <<>>]

Range(f) == {f[i] : i \in DOMAIN f}

-----------------------------------------------------------------------------
(* wasm: the web application.  Model is the record model; update() handles  *)
(* one message at a time.  A message given to orders.send_msg waits in      *)
(* queue and is handled before anything from outside; a future given to     *)
(* orders.perform_cmd runs in cmds and delivers its message when it         *)
(* completes: at once, before anything from outside, when nothing in it     *)
(* waits (the async block of update.rs), at any time when it waits for a    *)
(* timer (cmds::timeout: the password in lib.rs, the end of the message of  *)
(* ShowInformation in both).  lib.rs, the crate root, has an                *)
(* update() of its own: where its handlers differ from those of update.rs   *)
(* they are the definitions lib_...                                         *)
(* A password is carried as the inputs it is derived from (the              *)
(* derivation itself is LessPass::password above), a TOTP code as the       *)
(* secret, the algorithm, the digits and the counter it is computed from.   *)

\* Ulid::nil()
Nil == 0

\* enum Page
PageNone == [id |-> Nil, kind |-> "None"]
PageCredential(id) == [id |-> id, kind |-> "Credential"]
PageAddCredential == [id |-> Nil, kind |-> "AddCredential"]

\* struct OtpSpecialisation; secret_encoded is empty wherever one is built
OtpSpecialisation(secret_clear, digits, a, period) ==
    [algorithm |-> a, digits |-> digits, period |-> period,
     secret_clear |-> secret_clear]

\* enum OtpType: None, or Totp with its OtpSpecialisation; the start it
\* carries is 0 wherever one is built and is read nowhere
OtpTypeNone == <<>>
Totp(settings) == <<settings>>

\* struct Credential
Credential(id, site, login, counter, settings, otpType, pw) ==
    [counter |-> counter, id |-> id, login |-> login, otp |-> otpType,
     password |-> pw, settings |-> settings, site |-> site]

\* Settings::default()
SettingsDefault == SettingsOf(16, "LowercaseUppercaseNumbersSymbols", None)

\* Credential::default()
CredentialDefault ==
    Credential(Nil, <<>>, <<>>, 0, SettingsDefault, OtpTypeNone, None)

\* a message of enum Msg
Msg(type, id, arg) == [arg |-> arg, id |-> id, type |-> type]

\* Ord for str: the bytes compared from the left, a prefix being smaller
cmp(a, b) ==
    LET n == IF Len(a) < Len(b) THEN Len(a) ELSE Len(b)
        d == {i \in 1..n : a[i] # b[i]}
    IN  IF d = {}
        THEN IF Len(a) < Len(b) THEN "Less"
             ELSE IF Len(a) = Len(b) THEN "Equal"
             ELSE "Greater"
        ELSE LET i == CHOOSE j \in d : \A k \in d : j <= k
             IN  IF a[i] < b[i] THEN "Less" ELSE "Greater"

\* the white space str::trim removes: the characters of the Unicode
\* property White_Space, in UTF-8 (U+0009..U+000D, U+0020, U+0085, U+00A0,
\* U+1680, U+2000..U+200A, U+2028, U+2029, U+202F, U+205F, U+3000)
Whitespace ==
    {<<b>> : b \in {9, 10, 11, 12, 13, 32}}
    \cup {<<194, 133>>, <<194, 160>>, <<225, 154, 128>>}
    \cup {<<226, 128, b>> : b \in (128..138) \cup {168, 169, 175}}
    \cup {<<226, 129, 159>>, <<227, 128, 128>>}

\* s from its i-th byte on is white space only
RECURSIVE is_whitespace_from(_, _)
is_whitespace_from(s, i) ==
    \/ i > Len(s)
    \/ \E w \in Whitespace :
          /\ i + Len(w) - 1 <= Len(s)
          /\ SubSeq(s, i, i + Len(w) - 1) = w
          /\ is_whitespace_from(s, i + Len(w))

\* s.trim().is_empty()
trim_is_empty(s) == is_whitespace_from(s, 1)

\* str::trim_start
RECURSIVE trim_start(_)
trim_start(s) ==
    LET ws == {w \in Whitespace :
                 Len(w) <= Len(s) /\ SubSeq(s, 1, Len(w)) = w}
    IN  IF ws = {} THEN s
        ELSE trim_start(SubSeq(s, Len(CHOOSE w \in ws : TRUE) + 1, Len(s)))

\* str::trim_end
RECURSIVE trim_end(_)
trim_end(s) ==
    LET ws == {w \in Whitespace :
                 /\ Len(w) <= Len(s)
                 /\ SubSeq(s, Len(s) - Len(w) + 1, Len(s)) = w}
    IN  IF ws = {} THEN s
        ELSE trim_end(SubSeq(s, 1, Len(s) - Len(CHOOSE w \in ws : TRUE)))

\* str::trim
trim(s) == trim_end(trim_start(s))

\* str::contains(pattern)
contains(s, pattern) ==
    \E i \in 1..(Len(s) - Len(pattern) + 1) :
       SubSeq(s, i, i + Len(pattern) - 1) = pattern

\* Credentials::index(id): the position of the first entry with this id,
\* counted from 1; 0 stands for None
index(cs, id) ==
    IF \E i \in 1..Len(cs) : cs[i].id = id
    THEN CHOOSE i \in 1..Len(cs) :
             /\ cs[i].id = id
             /\ \A j \in 1..(i - 1) : cs[j].id # id
    ELSE 0

\* Credentials::get(id)
get(cs, id) == IF index(cs, id) = 0 THEN None ELSE Some(cs[index(cs, id)])

\* the loop of Credentials::insert: the position, counted from 1, of the
\* first entry that is not smaller than the credential, or one past the end
insert_index(cs, credential) ==
    LET stop == {i \in 1..Len(cs) :
                   ~ \/ cmp(cs[i].site, credential.site) = "Less"
                     \/ /\ cmp(cs[i].site, credential.site) = "Equal"
                        /\ cmp(cs[i].login, credential.login) = "Less"}
    IN  IF stop = {} THEN Len(cs) + 1
        ELSE CHOOSE i \in stop : \A k \in stop : i <= k

\* Vec::insert(index, element), Vec::push when index is one past the end
vec_insert(cs, i, credential) ==
    SubSeq(cs, 1, i - 1) \o <<credential>> \o SubSeq(cs, i, Len(cs))

\* Credentials::insert(credential)
insert(cs, credential) ==
    vec_insert(cs, insert_index(cs, credential), credential)

\* Credentials::remove(id): the list without the entry
remove(cs, id) ==
    IF index(cs, id) = 0 THEN cs
    ELSE SubSeq(cs, 1, index(cs, id) - 1)
         \o SubSeq(cs, index(cs, id) + 1, Len(cs))

\* what the future of ShowCredential resolves to:
\* fut_password_with_algorithm_from_length(site, login, counter, settings),
\* which is password() with the algorithm taken from the length
fut_password_with_algorithm_from_length(site, login, counter, settings) ==
    LET used == set_algorithm(settings, from_length(settings.pass_len))
        check == Validate(used.algorithm[1], used.pass_len, used.char_set)
    IN  IF check = Pending
        THEN Ok([counter |-> counter, login |-> login, settings |-> used,
                 site |-> site])
        ELSE check

\* the password of a credential as the list holds it
PasswordOf(credential) ==
    fut_password_with_algorithm_from_length(credential.site, credential.login,
                                            credential.counter,
                                            credential.settings)

\* the closure `now` of ShowCredential: the seconds left in the period
now(period) == period - (clock % period)

\* the counter Otp::totp_from_ts(ts) computes the code for, epoch offset 0
totp_from_ts(ts, period) == ts \div period

\* str::trim_end_matches(c)
trim_end_matches(s, c) ==
    LET keep == {i \in 1..Len(s) : s[i] # c}
    IN  IF keep = {} THEN <<>>
        ELSE SubSeq(s, 1, CHOOSE i \in keep : \A k \in keep : k <= i)

\* str::replace(c, ""), c one character
replace(s, c) == SelectSeq(s, LAMBDA x : x # c)

\* what base32::decode reads a character as in the alphabet of RFC 4648,
\* whatever its case; -1 when it is not of the alphabet
base32_value(c) ==
    IF c >= 65 /\ c <= 90 THEN c - 65
    ELSE IF c >= 97 /\ c <= 122 THEN c - 97
    ELSE IF c >= 50 /\ c <= 55 THEN c - 24
    ELSE IF c = 61 THEN 0
    ELSE -1

\* base32::decode: the length without the "=" at the end, six of them at
\* most
unpadded_data_length(s) ==
    LET pad == {i \in 1..Len(s) :
                  /\ i <= 6
                  /\ \A k \in 1..i : s[Len(s) - k + 1] = 61}
    IN  Len(s) - Cardinality(pad)

\* base32::decode: five bits a character from the left, cut into bytes,
\* as many as five bits a character of the unpadded length make whole
base32_decode(s) ==
    LET bit(k) == (base32_value(s[(k \div 5) + 1])
                     \div <<16, 8, 4, 2, 1>>[(k % 5) + 1]) % 2
        byte(j) == bit(8 * j) * 128 + bit(8 * j + 1) * 64
                   + bit(8 * j + 2) * 32 + bit(8 * j + 3) * 16
                   + bit(8 * j + 4) * 8 + bit(8 * j + 5) * 4
                   + bit(8 * j + 6) * 2 + bit(8 * j + 7)
    IN  [j \in 1..((unpadded_data_length(s) * 5) \div 8) |-> byte(j - 1)]

\* decode_base32(input)
decode_base32(input) ==
    LET encoded == replace(replace(trim_end_matches(input, 61), 45), 32)
    IN  IF \A i \in 1..Len(encoded) : base32_value(encoded[i]) >= 0
        THEN Ok(base32_decode(encoded))
        ELSE Err("InvalidBase32")

\* str::to_ascii_uppercase
to_ascii_uppercase(s) ==
    [i \in 1..Len(s) |-> IF s[i] >= 97 /\ s[i] <= 122 THEN s[i] - 32
                         ELSE s[i]]

\* the TOTP of two of the credentials of add_mock_data
MockTotp ==
    Totp(OtpSpecialisation(<<74, 86, 52, 86, 71, 90, 76, 68, 79, 74, 83, 88, 73>>, 6, "SHA1", 30))

\* the four credentials of add_mock_data, with the ids Ulid::new() gives
\* from first on
MockData(first) ==
    <<Credential(first, <<102, 97, 99, 101, 98, 111, 111, 107, 46, 99, 111, 109>>,
                 <<116, 101, 115, 116, 64, 101, 120, 97, 109, 112, 108, 101, 46, 99, 111, 109>>, 0,
                 SettingsDefault, OtpTypeNone, None),
      Credential(first + 1, <<101, 120, 97, 109, 112, 108, 101, 46, 99, 111, 109>>,
                 <<115, 112, 97, 109, 95, 49, 48, 95, 48, 48, 48, 64, 101, 120, 97, 109, 112, 108, 101, 46, 99, 111, 109>>, 42,
                 [SettingsOf(70, "LowercaseNumbers", None)
                    EXCEPT !.iterations = Some(10000)],
                 MockTotp, None),
      Credential(first + 2, <<102, 97, 99, 101, 98, 111, 111, 107, 46, 99, 111, 109>>,
                 <<116, 101, 115, 116, 64, 101, 120, 97, 109, 112, 108, 101, 46, 99, 111, 109>>, 0, SettingsDefault, OtpTypeNone, None),
      Credential(first + 3, <<101, 120, 97, 109, 112, 108, 101, 46, 99, 111, 109>>,
                 <<115, 112, 97, 109, 64, 101, 120, 97, 109, 112, 108, 101, 46, 99, 111, 109>>, 42,
                 SettingsOf(30, "LowercaseNumbers", None), MockTotp, None)>>

\* Model::add_mock_data: the four are pushed behind whatever the list holds
add_mock_data(credentials, first) == credentials \o MockData(first)

\* init(): nothing shown, no master password yet, the credentials read from
\* the local storage and then add_mock_data
ModelOf(stored) ==
    [credential |-> None,
     credentials |-> add_mock_data(stored, Len(stored) + 1),
     info |-> None,
     lesspass |-> FALSE, otp |-> None, page |-> PageNone, password |-> None,
     password_displayed |-> FALSE, save_disabled |-> TRUE,
     search_pattern |-> <<>>]

\* a list found in the local storage: two credentials saved earlier under
\* the ids 1 and 2, the second with a TOTP; the storage does not keep
\* secret_clear
StoredCredentials ==
    <<Credential(1, <<97>>, <<120>>, 0, SettingsDefault, OtpTypeNone, None),
      Credential(2, <<98>>, <<120>>, 1, SettingsOf(52, "LowercaseNumbers", None),
                 Totp(OtpSpecialisation(<<>>, 6, "SHA1", 30)), None)>>

\* the first launch: nothing is stored
ModelInit == ModelOf(<<>>)

\* the ids Ulid::new() has not given out at the launch: a stored list and
\* the four of add_mock_data have the ids below
FirstUlid == 7

\* a panic: the application stops where it is
Stopped(why) ==
    /\ fault' = why
    /\ UNCHANGED <<queue, cmds, clock, next_ulid>>

\* a panic after orders were given: the message sent and the future given
\* before it are with the runtime
StoppedAfter(why, rest, sent, run) ==
    /\ fault' = why
    /\ queue' = rest \o sent
    /\ cmds' = run
    /\ UNCHANGED <<clock, next_ulid>>

\* a handler returned: what it sent is queued behind the messages waiting
Handled(rest, sent, run) ==
    /\ queue' = rest \o sent
    /\ cmds' = run
    /\ UNCHANGED <<clock, fault>>

\* Msg::SetMaster; LessPass::new with ALGORITHM = SHA256 is always Ok
SetMaster(rest, run) ==
    /\ model' = [model EXCEPT !.lesspass = TRUE]
    /\ Handled(rest, <<Msg("ShowCredentialList", Nil, None)>>, run)
    /\ UNCHANGED <<coreVars, next_ulid>>

\* Msg::ShowCredentialList
ShowCredentialList(rest, run) ==
    /\ model' = [model EXCEPT !.page = PageNone, !.otp = None,
                              !.credential = None]
    /\ Handled(rest, <<>>, run)
    /\ UNCHANGED <<coreVars, next_ulid>>

\* Msg::ShowCredential(id) of update.rs: the password comes from an async
\* block in which nothing waits (timeout 0)
ShowCredential(id, rest, run) ==
    LET found == get(model.credentials, id)
        shown == [model EXCEPT !.page = PageCredential(id),
                               !.password = None,
                               !.password_displayed = FALSE]
    IN  /\ IF found = None
           THEN /\ model' = shown
                /\ Handled(rest, <<>>, run)
           ELSE LET credential == found[1]
                    period == IF credential.otp = OtpTypeNone THEN 1
                              ELSE credential.otp[1].period
                    timed ==
                      IF credential.otp = OtpTypeNone THEN shown
                      ELSE [shown EXCEPT !.otp =
                              Some([id |-> id,
                                    period |-> period,
                                    time |-> now(period),
                                    value |-> None])]
                IN  IF credential.password = None /\ ~ model.lesspass
                    THEN /\ model' = shown
                         /\ Stopped("unwrap of model.lesspass")
                    ELSE LET sent == IF credential.password = None THEN <<>>
                                     ELSE <<Msg("CurrentPassord", credential.id,
                                                credential.password)>>
                             given ==
                               IF credential.password # None THEN run
                               ELSE run (+) SetToBag(
                                              {[credential |-> credential,
                                                id |-> credential.id,
                                                timeout |-> 0]})
                         IN  IF period = 0
                             THEN /\ model' = shown
                                  /\ StoppedAfter(
                                        "remainder with a divisor of zero",
                                        rest, sent, given)
                             ELSE /\ model' = timed
                                  /\ Handled(rest, sent, given)
        /\ UNCHANGED <<coreVars, next_ulid>>

\* Msg::ShowCredential(id) of lib.rs: password_displayed is not there, the
\* password comes from cmds::timeout(100, ..) as Msg::ShowPassword(id,
\* password)
lib_ShowCredential(id, rest, run) ==
    LET found == get(model.credentials, id)
        shown == [model EXCEPT !.page = PageCredential(id),
                               !.password = None]
    IN  /\ IF found = None
           THEN /\ model' = shown
                /\ Handled(rest, <<>>, run)
           ELSE LET credential == found[1]
                    period == IF credential.otp = OtpTypeNone THEN 1
                              ELSE credential.otp[1].period
                    timed ==
                      IF credential.otp = OtpTypeNone THEN shown
                      ELSE [shown EXCEPT !.otp =
                              Some([id |-> id,
                                    period |-> period,
                                    time |-> now(period),
                                    value |-> None])]
                IN  IF credential.password = None /\ ~ model.lesspass
                    THEN /\ model' = shown
                         /\ Stopped("unwrap of model.lesspass")
                    ELSE LET sent == IF credential.password = None THEN <<>>
                                     ELSE <<Msg("ShowPassword", credential.id,
                                                credential.password)>>
                             given ==
                               IF credential.password # None THEN run
                               ELSE run (+) SetToBag(
                                              {[credential |-> credential,
                                                id |-> credential.id,
                                                timeout |-> 100]})
                         IN  IF period = 0
                             THEN /\ model' = shown
                                  /\ StoppedAfter(
                                        "remainder with a divisor of zero",
                                        rest, sent, given)
                             ELSE /\ model' = timed
                                  /\ Handled(rest, sent, given)
        /\ UNCHANGED <<coreVars, next_ulid>>

\* the Save button once the form is on the page: a form that was there
\* keeps its button as it is, a form that is put there has it disabled
mounted_save ==
    IF model.page = PageAddCredential THEN model.save_disabled ELSE TRUE

\* Msg::ShowEditCredential(id)
ShowEditCredential(id, rest, run) ==
    LET found == get(model.credentials, id)
    IN  /\ model' = IF found = None THEN model
                    ELSE [model EXCEPT
                            !.credential =
                                Some([found[1] EXCEPT !.password = None]),
                            !.page = PageAddCredential,
                            !.save_disabled = mounted_save]
        /\ Handled(rest, <<>>, run)
        /\ UNCHANGED <<coreVars, next_ulid>>

\* Msg::UpdateModifCredential(box_credential)
UpdateModifCredential(box_credential, rest, run) ==
    /\ model' = [model EXCEPT !.credential = Some(box_credential)]
    /\ Handled(rest, <<Msg("ValidateNewCredentialData", Nil, None)>>, run)
    /\ UNCHANGED <<coreVars, next_ulid>>

\* Msg::ShowAddCredential
ShowAddCredential(rest, run) ==
    /\ model' = [model EXCEPT !.credential = Some(CredentialDefault),
                              !.page = PageAddCredential,
                              !.save_disabled = mounted_save]
    /\ Handled(rest, <<>>, run)
    /\ UNCHANGED <<coreVars, next_ulid>>

\* the assignments of Msg::CurrentPassord(id, password), which are those of
\* Msg::ShowPassword(id, password) of lib.rs
CurrentPassord_model(id, pw) ==
    LET i == index(model.credentials, id)
        shown == [model EXCEPT !.password = Some(pw)]
    IN  IF i = 0 THEN shown
        ELSE [shown EXCEPT !.credentials[i].password = Some(pw)]

\* Msg::CurrentPassord(id, password)
CurrentPassord(id, pw, rest, run) ==
    /\ model' = CurrentPassord_model(id, pw)
    /\ Handled(rest, <<>>, run)
    /\ UNCHANGED <<coreVars, next_ulid>>

\* Msg::ShowPassword(id, password) of lib.rs
lib_ShowPassword(id, pw, rest, run) ==
    /\ model' = CurrentPassord_model(id, pw)
    /\ Handled(rest, <<>>, run)
    /\ UNCHANGED <<coreVars, next_ulid>>

\* Msg::ShowPassword(display) of update.rs
ShowPassword(display, rest, run) ==
    /\ model' = [model EXCEPT !.password_displayed = display]
    /\ Handled(rest, <<>>, run)
    /\ UNCHANGED <<coreVars, next_ulid>>

\* the list AddCredential leaves, the draft being saved under id
AddCredential_list(cs, credential, id) ==
    LET i == index(cs, credential.id)
    IN  IF i # 0 THEN [cs EXCEPT ![i] = credential]
        ELSE insert(cs, [credential EXCEPT !.id = id])

\* Msg::AddCredential of update.rs: a draft without id gets Ulid::new()
AddCredential(rest, run) ==
    /\ IF model.credential = None
       THEN /\ model' = model
            /\ next_ulid' = next_ulid
            /\ Stopped("getting credential")
       ELSE LET credential == model.credential[1]
                id == IF credential.id = Nil THEN next_ulid
                      ELSE credential.id
            IN  /\ model' = [model EXCEPT !.credentials =
                               AddCredential_list(model.credentials,
                                                  credential, id)]
                /\ next_ulid' = IF credential.id = Nil THEN next_ulid + 1
                                ELSE next_ulid
                /\ Handled(rest, <<Msg("ShowCredential", id, None)>>, run)
    /\ UNCHANGED coreVars

\* Msg::AddCredential of lib.rs: a draft without id gets Ulid::nil(), and
\* the list is searched and filled in place
lib_AddCredential(rest, run) ==
    /\ IF model.credential = None
       THEN /\ model' = model
            /\ Stopped("getting credential")
       ELSE LET credential == model.credential[1]
                id == IF credential.id = Nil THEN Nil ELSE credential.id
                found == index(model.credentials, credential.id)
                at == insert_index(model.credentials, credential)
            IN  /\ model' =
                     [model EXCEPT !.credentials =
                        IF found # 0 THEN [@ EXCEPT ![found] = credential]
                        ELSE IF at - 1 > Len(@)
                        THEN Append(@, [credential EXCEPT !.id = id])
                        ELSE vec_insert(@, at, [credential EXCEPT !.id = id])]
                /\ Handled(rest, <<Msg("ShowCredential", id, None)>>, run)
    /\ UNCHANGED <<coreVars, next_ulid>>

\* Msg::RemoveCredential(id)
RemoveCredential(id, rest, run) ==
    /\ model' = [model EXCEPT !.credentials = remove(@, id)]
    /\ Handled(rest, <<Msg("ShowCredentialList", Nil, None)>>, run)
    /\ UNCHANGED <<coreVars, next_ulid>>

\* the same with the comparison of the seconds left the other way round
SetTotpTime_model_smaller(t) ==
    IF model.otp = None THEN model
    ELSE IF t = model.otp[1].time THEN model
    ELSE IF model.otp[1].value # None /\ t < model.otp[1].time
    THEN [model EXCEPT !.otp[1].value = None, !.otp[1].time = t]
    ELSE [model EXCEPT !.otp[1].time = t]

\* the assignments of Msg::SetTotpTime(id, t)
SetTotpTime_model(t) ==
    IF model.otp = None THEN model
    ELSE IF t = model.otp[1].time THEN model
    ELSE IF model.otp[1].value # None /\ t > model.otp[1].time
    THEN [model EXCEPT !.otp[1].value = None, !.otp[1].time = t]
    ELSE [model EXCEPT !.otp[1].time = t]

\* Msg::SetTotpTime(id, t)
SetTotpTime(id, t, rest, run) ==
    /\ model' = SetTotpTime_model(t)
    /\ Handled(rest, <<>>, run)
    /\ UNCHANGED <<coreVars, next_ulid>>

\* Msg::ShowOtp(id): the secret is decoded and unwrapped, Otp::new is
\* called and unwrapped, model.otp is unwrapped; the code is carried as
\* what Otp::totp_from_ts computes it from
ShowOtp(id, rest, run) ==
    LET found == get(model.credentials, id)
    IN  /\ IF found = None \/ found[1].otp = OtpTypeNone
           THEN /\ model' = model
                /\ Handled(rest, <<>>, run)
           ELSE LET settings == found[1].otp[1]
                    secret == decode_base32(settings.secret_clear)
                    made == new_match(Some(settings.algorithm),
                                      settings.digits)
                IN  IF secret.tag # "Ok"
                    THEN /\ model' = model
                         /\ Stopped(secret.tag)
                    ELSE IF made # "Ok"
                    THEN /\ model' = model
                         /\ Stopped(made)
                    ELSE IF model.otp = None
                    THEN /\ model' = model
                         /\ Stopped("unwrap of model.otp")
                    ELSE /\ model' =
                              [model EXCEPT !.otp[1].value =
                                 Some([algorithm |-> settings.algorithm,
                                       counter |->
                                         totp_from_ts(
                                           clock,
                                           new_period(Some(settings.period))),
                                       digits |-> settings.digits,
                                       secret |-> secret.val])]
                         /\ Handled(rest, <<>>, run)
        /\ UNCHANGED <<coreVars, next_ulid>>

\* Msg::SearchCredential(search)
SearchCredential(search, rest, run) ==
    /\ model' = [model EXCEPT !.search_pattern = search]
    /\ Handled(rest, <<>>, run)
    /\ UNCHANGED <<coreVars, next_ulid>>

\* Msg::ShowInformation(message): a message is taken away 900 ms after it
\* is shown, by a future that waits for the timer
ShowInformation(message, rest, run) ==
    /\ model' = [model EXCEPT !.info = message]
    /\ Handled(rest, <<>>,
               IF message = None THEN run
               ELSE run (+) SetToBag({[message |-> None, timeout |-> 900]}))
    /\ UNCHANGED <<coreVars, next_ulid>>

\* the condition under which ValidateNewCredentialData disables Save
SaveDisabled(credential) ==
    LET charsets == Range(get_serials(credential.settings.char_set))
    IN  \/ /\ "Lowercase" \notin charsets
           /\ "Uppercase" \notin charsets
           /\ "Numbers" \notin charsets
           /\ "Symbols" \notin charsets
        \/ trim_is_empty(credential.site)
        \/ trim_is_empty(credential.login)

\* Msg::ValidateNewCredentialData
ValidateNewCredentialData(rest, run) ==
    /\ model' = IF model.credential = None THEN model
                ELSE [model EXCEPT !.save_disabled =
                                      SaveDisabled(model.credential[1])]
    /\ Handled(rest, <<>>, run)
    /\ UNCHANGED <<coreVars, next_ulid>>

\* the message at the head of the queue is handled by the update() of
\* update.rs
SendMsg ==
    /\ queue # <<>>
    /\ LET msg == Head(queue)
           rest == Tail(queue)
       IN  IF msg.type = "ShowCredentialList"
           THEN ShowCredentialList(rest, cmds)
           ELSE IF msg.type = "ShowCredential"
           THEN ShowCredential(msg.id, rest, cmds)
           ELSE IF msg.type = "CurrentPassord"
           THEN CurrentPassord(msg.id, msg.arg[1], rest, cmds)
           ELSE ValidateNewCredentialData(rest, cmds)

\* the message at the head of the queue is handled by the update() of
\* lib.rs
lib_SendMsg ==
    /\ queue # <<>>
    /\ LET msg == Head(queue)
           rest == Tail(queue)
       IN  IF msg.type = "ShowCredentialList"
           THEN ShowCredentialList(rest, cmds)
           ELSE IF msg.type = "ShowCredential"
           THEN lib_ShowCredential(msg.id, rest, cmds)
           ELSE IF msg.type = "ShowPassword"
           THEN lib_ShowPassword(msg.id, msg.arg[1], rest, cmds)
           ELSE ValidateNewCredentialData(rest, cmds)

\* a future completes.  The one of ShowInformation gives its message.  In
\* one of ShowCredential the unwrap of an Err panics, an Ok is delivered as
\* Msg::CurrentPassord by the async block of update.rs and as
\* Msg::ShowPassword by the timeout of lib.rs
PerformCmd(cmd) ==
    IF cmd.timeout = 900
    THEN ShowInformation(cmd.message, queue, cmds (-) SetToBag({cmd}))
    ELSE LET res == PasswordOf(cmd.credential)
         IN  IF res.tag = "Ok"
             THEN IF cmd.timeout = 0
                  THEN CurrentPassord(cmd.id, res.val, queue,
                                      cmds (-) SetToBag({cmd}))
                  ELSE lib_ShowPassword(cmd.id, res.val, queue,
                                        cmds (-) SetToBag({cmd}))
             ELSE /\ fault' = res.tag
                  /\ cmds' = cmds (-) SetToBag({cmd})
                  /\ UNCHANGED <<coreVars, model, queue, clock, next_ulid>>

\* the interval stream of the page's TOTP fires: Msg::SetTotpTime(id, now())
Interval ==
    /\ model.otp # None
    /\ SetTotpTime(model.otp[1].id, now(model.otp[1].period), queue, cmds)

\* a second passes
Second ==
    /\ clock' = clock + 1
    /\ UNCHANGED <<coreVars, model, queue, cmds, next_ulid, fault>>

-----------------------------------------------------------------------------
(* The state after construction *)

InitCore ==
    /\ kdf = <<>>
    /\ lp = NoLessPass
    /\ newResult = "none"
    /\ newArgs = NoLessPass
    /\ pc = [p \in Procs |-> "idle"]
    /\ args = [p \in Procs |-> NoArgs]
    /\ algorithm = [p \in Procs |-> "-"]
    /\ salt = [p \in Procs |-> <<>>]
    /\ entropy = [p \in Procs |-> <<>>]
    /\ password = [p \in Procs |-> <<>>]
    /\ additional = [p \in Procs |-> <<>>]
    /\ password_len = [p \in Procs |-> 0]
    /\ idx = [p \in Procs |-> 0]
    /\ rem = [p \in Procs |-> <<0, 0>>]
    /\ result = [p \in Procs |-> Pending]
    /\ log = <<>>
    /\ otp = NoOtp
    /\ otpNew = "none"
    /\ otpArgs = NoOtpArgs
    /\ otpLog = <<>>
    /\ cset = "None"
    /\ csIn = 0
    /\ csOut = Pending
    /\ queue = <<>>
    /\ cmds = EmptyBag
    /\ clock = 0
    /\ fault = "none"

\* the application starts with the model init() returned
Started(m) ==
    /\ model = m
    /\ next_ulid = FirstUlid

\* the first launch
Init == InitCore /\ Started(ModelInit)

\* a launch with the list saved earlier
InitStored == InitCore /\ Started(ModelOf(StoredCredentials))

-----------------------------------------------------------------------------
(* SpecPw: one LessPass is constructed, then password() is called once with
   any of the inputs *)

NextPw ==
    \/ /\ newResult = "none"
       /\ \E m \in Masters, a \in NewAlgorithms : LessPassNew(m, a)
    \/ /\ pc[1] = "idle"
       /\ \E site \in Sites, login \in Logins, len \in PassLens,
             cs \in CharacterSets, a \in OptAlgorithms :
               PasswordCall(1, site, login, 1, SettingsOf(len, cs, a))
    \/ PasswordRun(1)

SpecPw == Init /\ [][NextPw]_vars

-----------------------------------------------------------------------------
(* Claims C1, C2, C4, C5, checked under SpecPw *)


\* the flags a CharacterSet has active, read from its bits
ActiveFlags(cs) ==
    {f \in {"Lowercase", "Uppercase", "Numbers", "Symbols"} :
        \/ f = "Lowercase" /\ is_lower(cs)
        \/ f = "Uppercase" /\ is_upper(cs)
        \/ f = "Numbers" /\ is_number(cs)
        \/ f = "Symbols" /\ is_symbol(cs)}

Alphabet(f) ==
    CASE f = "Lowercase" -> Range(LOWERCASE)
      [] f = "Uppercase" -> Range(UPPERCASE)
      [] f = "Numbers" -> Range(NUMBERS)
      [] f = "Symbols" -> Range(SYMBOLS)

\* the per-algorithm ceiling the specification states
Ceiling(a) ==
    CASE a \in {"SHA256", "SHA3_256"} -> 35
      [] a \in {"SHA384", "SHA3_384"} -> 52
      [] a \in {"SHA512", "SHA3_512"} -> 70
      [] OTHER -> 0

\* the algorithm a call is made with: the override when present, else the
\* default of the LessPass
CallAlgorithm(p) ==
    IF args[p].settings.algorithm = None THEN lp.algorithm
    ELSE args[p].settings.algorithm[1]

Returned(p) == pc[p] = "done"
Succeeded(p) == pc[p] = "done" /\ result[p].tag = "Ok"

\* C1: a successful password() returns exactly pass_len characters: pass_len - k
\* characters were sampled from the pool when step 1 ends, and exactly k
\* mandatory characters were chosen and inserted (k = number of active flags).
C1_Length ==
    \A p \in Procs :
        LET L == args[p].settings.pass_len
            k == Cardinality(ActiveFlags(args[p].settings.char_set))
        IN  /\ pc[p] \in {"step2", "step3"} /\ idx[p] = 0
                => Len(password[p]) = L - k
            /\ pc[p] = "return" => Len(additional[p]) = k
            /\ Succeeded(p) =>
                  /\ Len(result[p].val) = L
                  /\ Len(additional[p]) = k
                  /\ k >= 1

C1_Witness ==
    /\ Succeeded(1)
    /\ args[1].settings.pass_len = 70
    /\ args[1].settings.char_set = "LowercaseUppercaseNumbersSymbols"
    /\ Len(result[1].val) = 70

\* C2: a successful password() holds at least one character of the alphabet of
\* every active flag, and no character outside the alphabets of the active flags.
C2_Coverage ==
    \A p \in Procs :
        Succeeded(p) =>
            LET flags == ActiveFlags(args[p].settings.char_set)
                chars == Range(result[p].val)
            IN  /\ \A f \in flags : chars \cap Alphabet(f) # {}
                /\ \A c \in chars : \E f \in flags : c \in Alphabet(f)

C2_Witness ==
    /\ Succeeded(1)
    /\ args[1].settings.char_set = "UppercaseNumbersSymbols"
    /\ args[1].settings.pass_len = 5
    /\ Cardinality(Range(result[1].val)) > 3

\* C4: the checks are made in the order algorithm, too short, too long, no
\* charset, the first failing one decides the error, and an error is returned
\* with neither the salt nor the entropy computed.
C4_ValidationOrder ==
    \A p \in Procs :
        Returned(p) =>
            LET a == CallAlgorithm(p)
                L == args[p].settings.pass_len
                k == Cardinality(ActiveFlags(args[p].settings.char_set))
                tag == result[p].tag
            IN  /\ a = "SHA1" => tag = "UnsupportedAlgorithm"
                /\ a # "SHA1" /\ L < 5 => tag = "PasswordTooShort"
                /\ a # "SHA1" /\ L >= 5 /\ L > Ceiling(a)
                      => tag = "PasswordTooLong"
                /\ a # "SHA1" /\ L >= 5 /\ L <= Ceiling(a) /\ k = 0
                      => tag = "NoCharsetSelected"
                /\ tag # "Ok" =>
                      /\ salt[p] = <<>>
                      /\ entropy[p] = <<>>
                      /\ kdf = <<>>

C4_Witness ==
    /\ Returned(1)
    /\ args[1].settings.pass_len = 4
    /\ args[1].settings.char_set = "None"
    /\ CallAlgorithm(1) = "SHA384"
    /\ result[1].tag = "PasswordTooShort"

\* C5: with a flag active and an algorithm A other than SHA-1, password()
\* succeeds iff 5 <= L <= ceiling(A); a shorter L gives PasswordTooShort(5, L),
\* a longer one PasswordTooLong(ceiling(A), L, A); A is the override when
\* present, else the default of the LessPass.
C5_LengthBounds ==
    \A p \in Procs :
        LET a == CallAlgorithm(p)
            L == args[p].settings.pass_len
            k == Cardinality(ActiveFlags(args[p].settings.char_set))
        IN  Returned(p) /\ a # "SHA1" /\ k >= 1 =>
                /\ result[p].tag = "Ok" <=> (5 <= L /\ L <= Ceiling(a))
                /\ L < 5 => result[p] = PasswordTooShort(5, L)
                /\ L > Ceiling(a) => result[p] = PasswordTooLong(Ceiling(a), L, a)

C5_Witness ==
    /\ Returned(1)
    /\ args[1].settings.algorithm = None
    /\ lp.algorithm = "SHA3_512"
    /\ args[1].settings.pass_len = 71
    /\ args[1].settings.char_set = "Numbers"
    /\ result[1] = PasswordTooLong(70, 71, "SHA3_512")

-----------------------------------------------------------------------------
(* SpecCipher: an OTP seed of any length is handed to secret_hotp or
   secret_totp, and what the call returned is handed back with the same site
   and login *)

\* byte i of the seed with pattern v
SecretByte(v, i) == IF v = 1 THEN 255 ELSE (v * 53 + i * 37 + 11) % 256
SecretSample(v, n) == [i \in 1..n |-> SecretByte(v, i)]
SecretSamples ==
    {SecretSample(v, n) : v \in 0..MaxPattern, n \in 0..MaxSecretLen}

\* the keystreams: their last bytes give every start offset
KeySamples ==
    {SampleDigest(seed, n) : seed \in 0..MaxKeySeed, n \in {32, 64}}

OtpFns == {"secret_hotp", "secret_totp"}

NextCipher ==
    \/ /\ newResult = "none"
       /\ \E m \in Masters, a \in {"SHA1", "SHA256"} : LessPassNew(m, a)
    \/ /\ log = <<>>
       /\ \E fn \in OtpFns, site \in Sites, login \in Logins,
             secret \in SecretSamples :
               SecretOtp(1, fn, site, login, secret, KeySamples)
    \/ /\ log # <<>>
       /\ LET last == log[Len(log)]
          IN  /\ last.result.tag = "Ok"
              /\ SecretOtp(1, last.fn, last.site, last.login, last.result.val,
                           KeySamples)

SpecCipher == Init /\ [][NextCipher]_vars

\* the log entries of secret_hotp / secret_totp calls
IsOtpCall(e) == e.fn \in OtpFns
\* the seed lengths that are encrypted
EncryptLens == (1..31) \cup (33..63)
\* entry e encrypted a seed
IsEncrypt(e) == IsOtpCall(e) /\ Len(e.secret) \in EncryptLens

\* C6: when a seed of 1..31 or 33..63 bytes was encrypted and the value
\* returned is given to the same function with the same master, site and
\* login, the call returns the seed, byte for byte, whatever the start offset.
C6_RoundTrip ==
    \A i \in 1..Len(log) : \A j \in (i + 1)..Len(log) :
        ( /\ IsEncrypt(log[i])
          /\ log[j].fn = log[i].fn
          /\ log[j].master = log[i].master
          /\ log[j].site = log[i].site
          /\ log[j].login = log[i].login
          /\ log[j].secret = log[i].result.val )
        => log[j].result = Ok(log[i].secret)

\* a seed of the maximal length 63 was encrypted from the last start offset,
\* so that its positions wrap, and was read back
C6_Witness ==
    /\ Len(log) >= 2
    /\ Len(log[1].secret) = 63
    /\ StartOf(log[1].hash) = 62
    /\ log[2].secret = log[1].result.val
    /\ log[2].result = Ok(log[1].secret)

\* C7: a seed of 1..31 bytes gives a 32-byte value from a SHA-256 keystream,
\* a seed of 33..63 bytes a 64-byte value from a SHA-512 keystream; a seed of
\* 0 or more than 64 bytes gives InvalidLength and no value, without a
\* keystream being derived; secret_hotp and secret_totp differ in the prefix of
\* the salt only.
C7_Classes ==
    \A i \in 1..Len(log) :
        LET e == log[i]
            n == Len(e.secret)
        IN  IsOtpCall(e) =>
              /\ n \in 1..31 =>
                    /\ e.result.tag = "Ok"
                    /\ Len(e.result.val) = 32
                    /\ pbkdf2("SHA256", e.master, e.salt, 100000) \in DOMAIN kdf
              /\ n \in 33..63 =>
                    /\ e.result.tag = "Ok"
                    /\ Len(e.result.val) = 64
                    /\ pbkdf2("SHA512", e.master, e.salt, 100000) \in DOMAIN kdf
              /\ (n = 0 \/ n > 64) =>
                    /\ e.result = Err("InvalidLength")
                    /\ e.hash = <<>>
              /\ e.result.tag = "Ok" =>
                    e.salt = (IF e.fn = "secret_hotp"
                              THEN <<104, 111, 116, 112>>
                              ELSE <<116, 111, 116, 112>>) \o e.site \o e.login

\* secret_totp was given a seed of 31 bytes and returned 32 bytes
C7_Witness ==
    /\ Len(log) >= 1
    /\ log[1].fn = "secret_totp"
    /\ Len(log[1].secret) = 31
    /\ log[1].result.tag = "Ok"
    /\ Len(log[1].result.val) = 32

-----------------------------------------------------------------------------
(* SpecWrongKey: a seed is encrypted, then the stored value is decrypted by a
   LessPass that may have another master, for a site or login that may be
   another one *)

\* digest d with the bits of mask flipped in byte j
Flip(d, j, mask) == [d EXCEPT ![j] = BitXor(@, mask)]

\* the digests a new query is answered with here: a sample, or a digest that
\* differs from one answered before in a single byte
NearSamples ==
    UNION {DigestSamples(a) : a \in {"SHA256", "SHA512"}}
    \cup UNION {{Flip(kdf[q], j, 1) : j \in 1..Len(kdf[q])} : q \in DOMAIN kdf}
    \cup {Flip(kdf[q], Len(kdf[q]), 128) : q \in DOMAIN kdf}

TwoMasters == {<<49, 50, 51>>, <<49, 50, 52>>}
TwoLogins == {<<108>>, <<109>>}
\* the seed lengths tried
SeedLens == (1..MaxSmallSeed) \cup {31, 33, 63}

NextWrongKey ==
    \/ \E m \in TwoMasters : LessPassNew(m, "SHA256")
    \/ /\ log = <<>>
       /\ \E n \in SeedLens :
             SecretOtp(1, "secret_totp", <<115>>, <<108>>, SecretSample(0, n),
                       UNION {DigestSamples(a) : a \in {"SHA256", "SHA512"}})
    \/ /\ Len(log) = 1
       /\ \E fn \in OtpFns, login \in TwoLogins :
             SecretOtp(1, fn, <<115>>, login, log[1].result.val, NearSamples)

SpecWrongKey == Init /\ [][NextWrongKey]_vars

\* the positions (counted from 0) the encryption in entry e wrote the seed to
UsedPositions(e) ==
    {(StartOf(e.hash) + i) % (Len(e.hash) - 1) : i \in 0..(Len(e.secret) - 1)}

\* keystream k agrees with the keystream of entry e in the last byte and in
\* every used position
Agrees(k, e) ==
    /\ k[Len(k)] = e.hash[Len(e.hash)]
    /\ \A pos \in UsedPositions(e) : k[pos + 1] = e.hash[pos + 1]

\* C8: when the value an encryption returned is decrypted with some keystream,
\* the result is the original seed exactly when that keystream agrees with the
\* encryption keystream in the last byte and in every used position; a
\* difference in any of these gives a different result.
C8_WrongKey ==
    \A i \in 1..Len(log) : \A j \in (i + 1)..Len(log) :
        ( /\ IsEncrypt(log[i])
          /\ IsOtpCall(log[j])
          /\ log[j].secret = log[i].result.val )
        => ( (log[j].result = Ok(log[i].secret))
               <=> Agrees(log[j].hash, log[i]) )

\* the stored value was decrypted under another master, site or login, whose
\* keystream has the same last byte and differs in a used position: a value
\* of the seed's length, and not the seed, came back
C8_Witness ==
    /\ Len(log) = 2
    /\ IsEncrypt(log[1])
    /\ log[2].secret = log[1].result.val
    /\ <<log[2].master, log[2].fn, log[2].login>>
         # <<log[1].master, log[1].fn, log[1].login>>
    /\ log[2].hash[Len(log[2].hash)] = log[1].hash[Len(log[1].hash)]
    /\ ~Agrees(log[2].hash, log[1])
    /\ Len(log[2].result.val) = Len(log[1].secret)
    /\ log[2].result # Ok(log[1].secret)

-----------------------------------------------------------------------------
(* SpecSeq: one LessPass; password(), secret_hotp / secret_totp and
   get_fingerprint are called one after the other, in any order *)

SeqCounters == {1, 2}
SeqSettings == {SettingsOf(5, "LowercaseNumbers", None)}
SeqSamples == UNION {DigestSamples(a) : a \in {"SHA256", "SHA512"}}

NextSeq ==
    \/ /\ newResult = "none"
       /\ \E m \in Masters : LessPassNew(m, "SHA256")
    \/ /\ pc[1] = "idle"
       /\ \E site \in Sites, login \in Logins, counter \in SeqCounters,
             settings \in SeqSettings :
               PasswordCall(1, site, login, counter, settings)
    \/ PasswordRun(1)
    \/ PasswordTaken(1)
    \/ \E fn \in OtpFns, site \in Sites, login \in Logins :
          SecretOtp(1, fn, site, login, SecretSample(0, 1), SeqSamples)
    \/ GetFingerprint(1, <<>>, DigestSamples(lp.algorithm))

SpecSeq == Init /\ [][NextSeq]_vars

\* C3: two password() calls on the same master and default algorithm with the
\* same site, login, counter and settings return the same value, whatever
\* calls of password(), secret_hotp / secret_totp or get_fingerprint were made
\* before or between them.
C3_Deterministic ==
    \A i \in 1..Len(log) : \A j \in (i + 1)..Len(log) :
        ( /\ log[i].fn = "password"
          /\ log[j].fn = "password"
          /\ log[i].master = log[j].master
          /\ log[i].algorithm = log[j].algorithm
          /\ log[i].site = log[j].site
          /\ log[i].login = log[j].login
          /\ log[i].counter = log[j].counter
          /\ log[i].settings = log[j].settings )
        => log[i].result = log[j].result

\* the same password was asked for twice, with a call for another counter
\* between the two, and was returned twice
C3_Witness ==
    /\ Len(log) = 3
    /\ log[1].fn = "password"
    /\ log[2].fn = "password"
    /\ log[3].fn = "password"
    /\ log[1].counter = log[3].counter
    /\ log[2].counter # log[1].counter
    /\ log[1].result.tag = "Ok"
    /\ log[2].result # log[1].result
    /\ log[3].result = log[1].result

-----------------------------------------------------------------------------
(* SpecHotp: an Otp of any digits and algorithm; hotp and totp_from_ts are
   called on it *)

OtpSecrets == {<<49, 50, 51, 52>>}
OtpDigits == 5..10
OtpAlgorithms ==
    {None, Some("SHA1"), Some("SHA256"), Some("SHA512"), Some("SHA384")}
OtpSamples == UNION {DigestSamples(a) : a \in {"SHA1", "SHA256", "SHA512"}}

NextHotp ==
    \/ /\ otpNew = "none"
       /\ \E secret \in OtpSecrets, digits \in OtpDigits, a \in OtpAlgorithms :
             OtpNew(secret, digits, a, None, None)
    \/ \E counter \in 0..MaxCounter : Hotp(counter, OtpSamples)
    \/ TotpFromTs(59, OtpSamples)

SpecHotp == Init /\ [][NextHotp]_vars

\* the value of a string of decimal digits
RECURSIVE DecimalValue(_)
DecimalValue(str) ==
    IF str = <<>> THEN 0
    ELSE 10 * DecimalValue(SubSeq(str, 1, Len(str) - 1)) + (str[Len(str)] - 48)

\* the 31-bit number RFC 4226 reads from a digest
Rfc4226(d) ==
    LET off == d[Len(d)] % 16
    IN  (d[off + 1] % 128) * 16777216 + d[off + 2] * 65536 + d[off + 3] * 256
        + d[off + 4]

\* C9: a token is computed as RFC 4226 states: the offset is the low nibble of
\* the digest's last byte, the four bytes from the offset lie inside the
\* digest of 20, 32 or 64 bytes, their 31-bit value modulo 10^digits is the
\* token's value, and the token has exactly `digits` decimal digits, for
\* digits 6..9.
C9_Truncation ==
    \A i \in 1..Len(otpLog) :
        LET e == otpLog[i]
            d == e.digest
            token == e.result.val
        IN  e.result.tag = "Ok" =>
              /\ e.otp.digits \in 6..9
              /\ Len(d) \in {20, 32, 64}
              /\ (d[Len(d)] % 16) + 4 <= Len(d)
              /\ Len(token) = e.otp.digits
              /\ \A k \in 1..Len(token) : token[k] \in 48..57
              /\ DecimalValue(token) = Rfc4226(d) % Pow10(e.otp.digits)

\* a 9-digit token was read from the last four bytes a 20-byte digest allows
\* (offset 15), and a token was padded with zeros
C9_Witness ==
    /\ Len(otpLog) = 2
    /\ otp.digits = 9
    /\ Len(otpLog[1].digest) = 20
    /\ otpLog[1].digest[20] % 16 = 15
    /\ otpLog[1].result.tag = "Ok"
    /\ otpLog[2].result.tag = "Ok"
    /\ otpLog[2].result.val[1] = 48

-----------------------------------------------------------------------------
(* SpecTotp: an Otp of any period and epoch offset; totp_from_ts is called at
   several times and hotp with several counters *)

\* <<period, timestamp>> as given to Otp::new
TotpConfigs == {<<None, None>>, <<Some(0), Some(3)>>, <<Some(2), Some(3)>>}
Times == (0..MaxTime) \cup {59, 60}

NextTotp ==
    \/ /\ otpNew = "none"
       /\ \E secret \in OtpSecrets, c \in TotpConfigs :
             OtpNew(secret, 6, None, c[1], c[2])
    \/ \E counter \in 0..MaxCounter : Hotp(counter, OtpSamples)
    \/ \E t \in Times : TotpFromTs(t, OtpSamples)

SpecTotp == Init /\ [][NextTotp]_vars

\* entry e is a totp_from_ts call at a time not before the epoch offset
IsTotpAfterEpoch(e) == e.fn = "totp_from_ts" /\ e.arg >= e.otp.timestamp
\* the counter the specification gives the time of entry e
StatedCounter(e) == (e.arg - e.otp.timestamp) \div e.otp.period

\* C10: for t >= epoch_offset, totp_from_ts(t) is hotp of the counter
\* floor((t - epoch_offset) / period): it hashes that counter, and returns
\* what a hotp call with that counter returns; the counter does not decrease
\* when t grows.
C10_TotpIsHotp ==
    \A i \in 1..Len(otpLog) :
        LET e == otpLog[i]
        IN  IsTotpAfterEpoch(e) =>
              /\ e.result.tag = "Ok"
              /\ e.counter = <<0, 0, 0, StatedCounter(e)>>
              /\ <<"hmac", e.otp.algorithm, e.otp.secret,
                   <<0, 0, 0, 0, 0, 0, 0, StatedCounter(e)>>>> \in DOMAIN kdf
              /\ \A j \in 1..Len(otpLog) :
                    LET f == otpLog[j]
                    IN  /\ (f.fn = "hotp" /\ f.arg = StatedCounter(e))
                             => f.result = e.result
                        /\ (IsTotpAfterEpoch(f) /\ f.arg >= e.arg)
                             => StatedCounter(f) >= StatedCounter(e)
                                /\ f.counter[4] >= e.counter[4]

\* with an epoch offset of 3 and a period of 2, totp_from_ts(4) and hotp(0)
\* returned the same token
C10_Witness ==
    /\ Len(otpLog) = 2
    /\ otp.timestamp = 3
    /\ otp.period = 2
    /\ otpLog[1].fn = "totp_from_ts"
    /\ otpLog[1].arg = 4
    /\ otpLog[2].fn = "hotp"
    /\ otpLog[2].arg = 0
    /\ otpLog[2].result = otpLog[1].result
    /\ otpLog[1].result.tag = "Ok"

\* entry e is a totp_from_ts call at a time before the epoch offset
IsTotpBeforeEpoch(e) == e.fn = "totp_from_ts" /\ e.arg < e.otp.timestamp

\* the digits of x * n + carry, for 16-bit digits x, from digit i down; the
\* carry out of the first digit is put in front
RECURSIVE U64MulAdd(_, _, _, _)
U64MulAdd(x, n, carry, i) ==
    IF i = 0 THEN <<carry>> \o x
    ELSE LET cur == x[i] * n + carry
         IN  U64MulAdd([x EXCEPT ![i] = cur % 65536], n, cur \div 65536, i - 1)

\* 2^64 - d for 0 < d <= 65536, as 16-bit digits after a carry digit of 0
TwoTo64Minus(d) == <<0, 65535, 65535, 65535, 65536 - d>>

\* C25: totp_from_ts does not handle a timestamp earlier than the epoch
\* offset: for t < epoch_offset the u64 subtraction underflows, which is a
\* panic in a build with overflow checks and otherwise the counter
\* (2^64 - (epoch_offset - t)) / period, and never an error value; Otp::new
\* accepted the offset, so the state is reached through the public interface.
C25_TotpUnderflow ==
    \A i \in 1..Len(otpLog) :
        LET e == otpLog[i]
        IN  IsTotpBeforeEpoch(e) =>
              /\ otpNew = "Ok"
              /\ otpArgs.timestamp = Some(e.otp.timestamp)
              /\ e.result.tag \in {"Panic", "Ok"}
              /\ e.result.tag = "Ok" =>
                    /\ Len(e.result.val) = e.otp.digits
                    /\ \E r \in 0..(e.otp.period - 1) :
                          U64MulAdd(e.counter, e.otp.period, r, 4) =
                             TwoTo64Minus(e.otp.timestamp - e.arg)
                    /\ to_be_bytes(e.counter)[1] >= 8

\* with an epoch offset of 3 and a period of 2, totp_from_ts(1) panicked in
\* one call and returned the token of a wrapped counter in another
C25_Witness ==
    /\ Len(otpLog) = 2
    /\ otp.timestamp = 3
    /\ otp.period = 2
    /\ otpLog[1].fn = "totp_from_ts"
    /\ otpLog[1].arg = 1
    /\ otpLog[1].result = Panic
    /\ otpLog[2].fn = "totp_from_ts"
    /\ otpLog[2].arg = 1
    /\ otpLog[2].result.tag = "Ok"
    /\ otpLog[2].counter = <<32767, 65535, 65535, 65535>>

-----------------------------------------------------------------------------
(* SpecOtpNew: Otp::new is given any algorithm, digits, period and epoch
   offset; totp_from_ts is called on the Otp it returned *)

\* the digits tried: a u8
NewDigits == (0..MaxOtpDigits) \cup {255}
NewOtpAlgorithms == {None} \cup {Some(a) : a \in Algorithms}
NewPeriods == {None, Some(0), Some(1), Some(2)}
NewTimestamps == {None, Some(3)}

NextOtpNew ==
    \/ /\ otpNew = "none"
       /\ \E secret \in OtpSecrets, digits \in NewDigits,
             a \in NewOtpAlgorithms, period \in NewPeriods,
             timestamp \in NewTimestamps :
               OtpNew(secret, digits, a, period, timestamp)
    \/ \E t \in {3, 59} : TotpFromTs(t, OtpSamples)

SpecOtpNew == Init /\ [][NextOtpNew]_vars

\* C11: Otp::new returns UnsupportedAlgorithm for SHA384, SHA3_256, SHA3_384
\* and SHA3_512 whatever the digits are; for SHA1, SHA256, SHA512 or no
\* algorithm it returns InvalidLength when digits is outside 6..9 and an Otp
\* when digits is in 6..9.
C11_NewErrors ==
    otpNew # "none" =>
        LET a == otpArgs.algorithm
            d == otpArgs.digits
            outside == a \in {Some("SHA384"), Some("SHA3_256"),
                              Some("SHA3_384"), Some("SHA3_512")}
        IN  /\ outside => otpNew = "UnsupportedAlgorithm"
            /\ (~outside /\ d \notin 6..9) => otpNew = "InvalidLength"
            /\ (~outside /\ d \in 6..9) => otpNew = "Ok"
            /\ otpNew # "Ok" => otp = NoOtp

\* both the algorithm and the digits were invalid, and the algorithm's error
\* was returned
C11_Witness ==
    /\ otpArgs.algorithm = Some("SHA3_256")
    /\ otpArgs.digits = 5
    /\ otpNew = "UnsupportedAlgorithm"

\* C12: an Otp that Otp::new returned has digits in 6..9, an algorithm among
\* SHA1, SHA256, SHA512 (SHA1 when none was given), a period of at least 1
\* (30 when none was given, 1 when 0 was given) and the epoch offset 0 when
\* none was given; every totp_from_ts call divided by a period of at least 1.
C12_OtpInvariant ==
    /\ otpNew = "Ok" =>
          /\ otp.digits \in 6..9
          /\ otp.digits = otpArgs.digits
          /\ otp.algorithm \in {"SHA1", "SHA256", "SHA512"}
          /\ otpArgs.algorithm = None => otp.algorithm = "SHA1"
          /\ otpArgs.algorithm # None => otp.algorithm = otpArgs.algorithm[1]
          /\ otp.period >= 1
          /\ otpArgs.period = None => otp.period = 30
          /\ otpArgs.period = Some(0) => otp.period = 1
          /\ otpArgs.timestamp = None => otp.timestamp = 0
    /\ \A i \in 1..Len(otpLog) :
          otpLog[i].fn = "totp_from_ts" => otpLog[i].otp.period >= 1

\* an Otp asked for with the period 0 answered totp_from_ts
C12_Witness ==
    /\ otpNew = "Ok"
    /\ otpArgs.period = Some(0)
    /\ otp.period = 1
    /\ Len(otpLog) >= 1
    /\ otpLog[1].fn = "totp_from_ts"
    /\ otpLog[1].result.tag = "Ok"

-----------------------------------------------------------------------------
(* SpecCharset: the owner of a CharacterSet sets and clears its flags, and
   bytes are decoded with try_from *)

CharUses == {"Use", "DontUse"}

NextCharset ==
    \/ \E lower \in CharUses : set_lower(lower)
    \/ \E upper \in CharUses : set_upper(upper)
    \/ \E number \in CharUses : set_number(number)
    \/ \E symbol \in CharUses : set_symbol(symbol)
    \/ \E value \in 0..255 : TryFromU8(value)

SpecCharset == Init /\ [][NextCharset]_vars

\* the flags a variant's name spells out
NamedFlags(cs) ==
    CASE cs = "None" -> {}
      [] cs = "Lowercase" -> {"Lowercase"}
      [] cs = "Uppercase" -> {"Uppercase"}
      [] cs = "Numbers" -> {"Numbers"}
      [] cs = "Symbols" -> {"Symbols"}
      [] cs = "LowercaseUppercase" -> {"Lowercase", "Uppercase"}
      [] cs = "LowercaseNumbers" -> {"Lowercase", "Numbers"}
      [] cs = "LowercaseSymbols" -> {"Lowercase", "Symbols"}
      [] cs = "UppercaseNumbers" -> {"Uppercase", "Numbers"}
      [] cs = "UppercaseSymbols" -> {"Uppercase", "Symbols"}
      [] cs = "NumbersSymbols" -> {"Numbers", "Symbols"}
      [] cs = "LowercaseUppercaseNumbers" -> {"Lowercase", "Uppercase", "Numbers"}
      [] cs = "LowercaseUppercaseSymbols" -> {"Lowercase", "Uppercase", "Symbols"}
      [] cs = "LowercaseNumbersSymbols" -> {"Lowercase", "Numbers", "Symbols"}
      [] cs = "UppercaseNumbersSymbols" -> {"Uppercase", "Numbers", "Symbols"}
      [] cs = "LowercaseUppercaseNumbersSymbols" ->
            {"Lowercase", "Uppercase", "Numbers", "Symbols"}

\* the bit the encoding gives a flag
FlagBit(f) ==
    CASE f = "Lowercase" -> 1
      [] f = "Uppercase" -> 2
      [] f = "Numbers" -> 4
      [] f = "Symbols" -> 8

\* the sum of the bits of a set of flags
RECURSIVE SumBits(_)
SumBits(fs) ==
    IF fs = {} THEN 0
    ELSE LET f == CHOOSE x \in fs : TRUE
         IN  FlagBit(f) + SumBits(fs \ {f})

\* C13: the encoding of a CharacterSet round-trips: decoding the byte of a
\* selection gives the selection back, encoding what a byte 0..15 decodes to
\* gives the byte back, no two selections share a byte, the byte is the sum of
\* the bits 1, 2, 4, 8 of the flags the variant's name spells out (and is_lower,
\* is_upper, is_number, is_symbol answer by that name), and a byte above 15 is
\* refused.
C13_EncodingRoundTrip ==
    /\ cset \in CharacterSets
    /\ try_from(u8_from(cset)).tag = "Ok"
    /\ try_from(u8_from(cset)).val = cset
    /\ \A other \in CharacterSets \ {cset} : u8_from(other) # u8_from(cset)
    /\ u8_from(cset) = SumBits(NamedFlags(cset))
    /\ is_lower(cset) <=> "Lowercase" \in NamedFlags(cset)
    /\ is_upper(cset) <=> "Uppercase" \in NamedFlags(cset)
    /\ is_number(cset) <=> "Numbers" \in NamedFlags(cset)
    /\ is_symbol(cset) <=> "Symbols" \in NamedFlags(cset)
    /\ csOut.tag # "Pending" =>
          /\ csIn <= 15 => (csOut.tag = "Ok" /\ u8_from(csOut.val) = csIn)
          /\ csIn > 15 => csOut.tag = "Unsupported value"

\* the byte 6 was decoded to the selection that set_upper and set_number built
C13_Witness ==
    /\ cset = "UppercaseNumbers"
    /\ csIn = 6
    /\ csOut.tag = "Ok"
    /\ csOut.val = cset

\* the flags in the fixed order
FlagOrder == <<"Lowercase", "Uppercase", "Numbers", "Symbols">>
\* the number of characters the specification gives a flag's alphabet
AlphabetSize(f) ==
    CASE f = "Lowercase" -> 26
      [] f = "Uppercase" -> 26
      [] f = "Numbers" -> 10
      [] f = "Symbols" -> 32

\* the concatenation of the alphabets of a sequence of flags
RECURSIVE ConcatAlphabets(_)
ConcatAlphabets(fs) ==
    IF fs = <<>> THEN <<>>
    ELSE get_serial(Head(fs)) \o ConcatAlphabets(Tail(fs))

RECURSIVE SumSizes(_)
SumSizes(fs) ==
    IF fs = <<>> THEN 0 ELSE AlphabetSize(Head(fs)) + SumSizes(Tail(fs))

\* the flags whose bit is set in byte b, in the fixed order
FlagsOfByte(b) ==
    LET set(f) == (b \div FlagBit(f)) % 2 = 1
    IN  SelectSeq(FlagOrder, set)

\* C14: for every selection the tables agree with the flag bits: get_serials
\* lists the flags whose bit is set, in the order lowercase, uppercase, number,
\* symbol; get_chars is the concatenation of their alphabets in that order, of
\* 26, 26, 10 and 32 characters; get_charset_count is the length of get_serials
\* and the number of bits set.
C14_TablesAgree ==
    LET flags == FlagsOfByte(u8_from(cset))
    IN  /\ get_serials(cset) = flags
        /\ get_chars(cset) = ConcatAlphabets(get_serials(cset))
        /\ Len(get_chars(cset)) = SumSizes(flags)
        /\ get_charset_count(cset) = Len(get_serials(cset))
        /\ get_charset_count(cset) = Cardinality(Range(flags))

\* a selection of three flags was built with the set_* methods
C14_Witness ==
    /\ cset = "UppercaseNumbersSymbols"
    /\ get_serials(cset) = <<"Uppercase", "Numbers", "Symbols">>
    /\ Len(get_chars(cset)) = 68
    /\ get_charset_count(cset) = 3

\* the answer of the is_* query of the flag with bit b
is_flag(cs, b) ==
    CASE b = 1 -> is_lower(cs)
      [] b = 2 -> is_upper(cs)
      [] b = 4 -> is_number(cs)
      [] b = 8 -> is_symbol(cs)

FlagBits == {1, 2, 4, 8}

\* C22: a setter changes one flag only: after set_lower / set_upper /
\* set_number / set_symbol with Use (DontUse) the matching is_* query is true
\* (false) and the three other flags are as before; each setter is
\* idempotent, setters of different flags commute, and after any sequence of
\* setter calls the value is one of the 16 selections (try_from never fails).
\* Stated of the value every setter call leaves, from every value reached.
C22_SetterFrame ==
    /\ cset \in CharacterSets
    /\ \A b \in FlagBits, u \in CharUses :
          LET once == set_charset_value(cset, u, b)
          IN  /\ once \in CharacterSets
              /\ is_flag(once, b) <=> u = "Use"
              /\ \A c \in FlagBits \ {b} : is_flag(once, c) <=> is_flag(cset, c)
              /\ set_charset_value(once, u, b) = once
              /\ \A c \in FlagBits \ {b}, v \in CharUses :
                    /\ set_charset_value(once, v, c) \in CharacterSets
                    /\ set_charset_value(once, v, c) =
                          set_charset_value(set_charset_value(cset, v, c), u, b)

\* three flags were set one after the other, and clearing the number flag of
\* the value reached leaves it as it is
C22_Witness ==
    /\ cset = "LowercaseUppercaseSymbols"
    /\ set_charset_value(cset, "DontUse", 4) = cset
    /\ set_charset_value(cset, "Use", 4) = "LowercaseUppercaseNumbersSymbols"

-----------------------------------------------------------------------------
(* SpecSha1: LessPass::new is called with any algorithm, again and again, and
   password() with and without SHA-1 as the settings' algorithm *)

Sha1Algorithms == {"SHA1", "SHA256", "SHA512"}
Sha1Settings ==
    {SettingsOf(5, "Lowercase", a) :
        a \in {None, Some("SHA1"), Some("SHA256")}}

NextSha1 ==
    \/ \E m \in Masters, a \in Sha1Algorithms : LessPassNew(m, a)
    \/ /\ pc[1] = "idle"
       /\ \E site \in Sites, login \in Logins, settings \in Sha1Settings :
             PasswordCall(1, site, login, 1, settings)
    \/ PasswordRun(1)
    \/ PasswordTaken(1)

SpecSha1 == Init /\ [][NextSha1]_vars

\* the positions of password() after its validation
Deriving == {"derive", "step1", "step2", "step3", "return"}

\* C15: SHA-1 never derives a password: LessPass::new with SHA-1 returns
\* UnsupportedAlgorithm, no LessPass has SHA-1 as its default algorithm,
\* password() with SHA-1 in its settings returns UnsupportedAlgorithm, no call
\* gets past its validation with SHA-1, and the keyed hash is never asked for
\* a SHA-1 digest.
C15_NoSha1 ==
    /\ (newResult # "none" /\ newArgs.algorithm = "SHA1")
          => newResult = "UnsupportedAlgorithm"
    /\ lp.algorithm # "SHA1"
    /\ \A p \in Procs :
          /\ pc[p] \in Deriving => algorithm[p] # "SHA1"
          /\ (pc[p] = "done" /\ args[p].settings.algorithm = Some("SHA1"))
                => result[p] = Err("UnsupportedAlgorithm")
    /\ \A q \in DOMAIN kdf : q[2] # "SHA1"
    /\ \A i \in 1..Len(log) :
          log[i].fn = "password" =>
              /\ log[i].algorithm # "SHA1"
              /\ log[i].settings.algorithm = Some("SHA1")
                    => log[i].result = Err("UnsupportedAlgorithm")

\* LessPass::new refused SHA-1 while an earlier LessPass lives on, and a
\* password() call with SHA-1 in its settings was refused
C15_Witness ==
    /\ newArgs.algorithm = "SHA1"
    /\ newResult = "UnsupportedAlgorithm"
    /\ lp # NoLessPass
    /\ Len(log) >= 2
    /\ log[1].settings.algorithm = Some("SHA1")
    /\ log[1].result = Err("UnsupportedAlgorithm")
    /\ log[2].result.tag = "Ok"

-----------------------------------------------------------------------------
(* SpecFingerprint: get_fingerprint is called with several salts *)

FingerprintSalts == {<<>>, <<115>>}

NextFingerprint ==
    \/ /\ newResult = "none"
       /\ \E m \in Masters, a \in NewAlgorithms : LessPassNew(m, a)
    \/ \E fsalt \in FingerprintSalts :
          GetFingerprint(1, fsalt, DigestSamples(lp.algorithm))

SpecFingerprint == Init /\ [][NextFingerprint]_vars

\* the 24-bit big-endian integer of the digest bytes 3i, 3i+1, 3i+2
\* (i = 0, 1, 2; bytes counted from 0)
Chunk24(d, i) == d[3 * i + 1] * 65536 + d[3 * i + 2] * 256 + d[3 * i + 3]

\* C16: get_fingerprint renders the digest with two hexadecimal digits per
\* byte, so that pair i (i = 0, 1, 2) is COLORS[v mod 14], ICONS[v mod 46] for
\* the 24-bit big-endian integer v of the digest bytes 3i..3i+2, for every
\* digest.
C16_TwoDigitsPerByte ==
    \A k \in 1..Len(log) :
        log[k].fn = "get_fingerprint" =>
            /\ log[k].result.tag = "Ok"
            /\ \A i \in 0..2 :
                  LET v == Chunk24(log[k].hash, i)
                      out == log[k].result.val
                  IN  /\ out[2 * i + 1] = COLORS[(v % 14) + 1]
                      /\ out[2 * i + 2] = ICONS[(v % 46) + 1]

-----------------------------------------------------------------------------
(* SpecFromLength: password_with_algorithm_from_length is called, then
   password() with the same site, login, counter and settings but for an
   algorithm set in them *)

FromLengthLens == {4, 5, 35, 36, 52, 53, 70, 71}
FromLengthSettings ==
    {SettingsOf(len, cs, a) : len \in FromLengthLens,
                              cs \in {"None", "LowercaseNumbers"},
                              a \in {None, Some("SHA3_256")}}

NextFromLength ==
    \/ /\ newResult = "none"
       /\ \E m \in Masters, a \in {"SHA256", "SHA3_512"} : LessPassNew(m, a)
    \/ /\ pc[1] = "idle"
       /\ log = <<>>
       /\ \E site \in Sites, login \in Logins, settings \in FromLengthSettings :
             PasswordFromLengthCall(1, site, login, 1, settings)
    \/ /\ pc[1] = "idle"
       /\ Len(log) = 1
       /\ \E a \in {"SHA256", "SHA384", "SHA512"} :
             PasswordCall(1, log[1].site, log[1].login, log[1].counter,
                          set_algorithm(log[1].settings, a))
    \/ PasswordRun(1)
    \/ PasswordTaken(1)

SpecFromLength == Init /\ [][NextFromLength]_vars

\* the algorithm the policy names for a length
PolicyAlgorithm(l) ==
    CASE l <= 35 -> "SHA256"
      [] l >= 36 /\ l <= 52 -> "SHA384"
      [] OTHER -> "SHA512"

\* C17: password_with_algorithm_from_length returns what password() returns
\* for the same site, login, counter and settings with the settings' algorithm
\* replaced by SHA256 (length <= 35), SHA384 (36..52) or SHA512 (above): the
\* algorithm given in the settings and the master's default are ignored, the
\* settings the caller passed keep their algorithm, and the only errors are
\* PasswordTooShort (length < 5), PasswordTooLong(70, length, SHA512)
\* (length > 70) and NoCharsetSelected.
C17_FromLength ==
    /\ \A p \in Procs :
          (pc[p] # "idle" /\ args[p].entry = "password_with_algorithm_from_length")
             => /\ args[p].settings =
                      [args[p].given EXCEPT
                          !.algorithm = Some(PolicyAlgorithm(args[p].given.pass_len))]
                /\ pc[p] \notin {"validate"} =>
                      algorithm[p] = PolicyAlgorithm(args[p].given.pass_len)
    /\ \A i \in 1..Len(log) :
          LET e == log[i]
              l == e.settings.pass_len
          IN  e.fn = "password_with_algorithm_from_length" =>
                /\ e.result.tag \in {"Ok", "PasswordTooShort", "PasswordTooLong",
                                     "NoCharsetSelected"}
                /\ e.result.tag = "PasswordTooShort" <=> l < 5
                /\ e.result.tag = "PasswordTooLong" <=> l > 70
                /\ l > 70 => e.result = PasswordTooLong(70, l, "SHA512")
                /\ e.result.tag = "NoCharsetSelected" =>
                      get_charset_count(e.settings.char_set) = 0
                /\ \A j \in 1..Len(log) :
                      LET f == log[j]
                      IN  ( /\ f.fn = "password"
                            /\ f.master = e.master
                            /\ f.site = e.site
                            /\ f.login = e.login
                            /\ f.counter = e.counter
                            /\ f.settings =
                                 [e.settings EXCEPT
                                     !.algorithm = Some(PolicyAlgorithm(l))] )
                          => f.result = e.result

\* a password of 36 characters was asked for with SHA3_256 in the settings:
\* password_with_algorithm_from_length and password() with SHA384 returned
\* the same password
C17_Witness ==
    /\ Len(log) = 2
    /\ log[1].fn = "password_with_algorithm_from_length"
    /\ log[1].settings.pass_len = 36
    /\ log[1].settings.algorithm = Some("SHA3_256")
    /\ log[2].fn = "password"
    /\ log[2].settings.algorithm = Some("SHA384")
    /\ log[1].result.tag = "Ok"
    /\ log[2].result = log[1].result

-----------------------------------------------------------------------------
(* SpecSalt: one password() call per run, over counters on both sides of
   every digit boundary of hex::to and sites and logins of several lengths *)

HexCounters ==
    (0..MaxHexCounter) \cup
    {90, 255, 256, 257, 2032, 4095, 4096, 59905, 60000, 65535, 65536, 1048576,
     16777215, 16777216, 268435456, 2147483647}
SaltSites == {<<>>, <<115>>, <<115, 49>>}
SaltLogins == {<<>>, <<48>>, <<108, 48>>}

NextSalt ==
    \/ /\ newResult = "none"
       /\ \E m \in Masters : LessPassNew(m, "SHA256")
    \/ /\ log = <<>>
       /\ \E site \in SaltSites, login \in SaltLogins, counter \in HexCounters :
             PasswordCall(1, site, login, counter,
                          SettingsOf(5, "Lowercase", None))
    \/ PasswordRun(1)
    \/ PasswordTaken(1)

SpecSalt == Init /\ [][NextSalt]_vars

LowerHexDigits == {48, 49, 50, 51, 52, 53, 54, 55, 56, 57,
                   97, 98, 99, 100, 101, 102}

\* the number a string of lowercase hexadecimal digits stands for, most
\* significant digit first
RECURSIVE LowerHexValue(_)
LowerHexValue(h) ==
    IF h = <<>> THEN 0
    ELSE LET c == h[Len(h)]
             d == IF c >= 97 THEN c - 87 ELSE c - 48
         IN  16 * LowerHexValue(SubSeq(h, 1, Len(h) - 1)) + d

\* h is the minimal lowercase hexadecimal representation of counter
IsMinimalHex(h, counter) ==
    /\ Len(h) >= 1
    /\ \A i \in 1..Len(h) : h[i] \in LowerHexDigits
    /\ h[1] = 48 => (Len(h) = 1 /\ counter = 0)
    /\ Len(h) <= 8
    /\ LowerHexValue(h) = counter

\* the salt s is site, then login, then the minimal hexadecimal counter
IsSaltOf(s, site, login, counter) ==
    LET n == Len(site) + Len(login)
    IN  /\ Len(s) > n
        /\ SubSeq(s, 1, Len(site)) = site
        /\ SubSeq(s, Len(site) + 1, n) = login
        /\ IsMinimalHex(SubSeq(s, n + 1, Len(s)), counter)
        /\ counter = 0 => SubSeq(s, n + 1, Len(s)) = <<48>>
        /\ counter = 90 => SubSeq(s, n + 1, Len(s)) = <<53, 97>>
        /\ counter = 256 => SubSeq(s, n + 1, Len(s)) = <<49, 48, 48>>
        /\ counter = 2032 => SubSeq(s, n + 1, Len(s)) = <<55, 102, 48>>

\* C18: the salt of a password derivation is the site's bytes, then the
\* login's bytes, then hex(counter), and hex(counter) is the minimal lowercase
\* hexadecimal representation of the counter, most significant digit first:
\* never empty, no leading '0' unless the counter is 0 ("0"); 90 gives "5a",
\* 256 gives "100", 2032 gives "7f0".
C18_Salt ==
    /\ \A p \in Procs :
          pc[p] \in {"step1", "step2", "step3", "return", "done"} /\ salt[p] # <<>>
             => IsSaltOf(salt[p], args[p].site, args[p].login, args[p].counter)
    /\ \A i \in 1..Len(log) :
          (log[i].fn = "password" /\ log[i].result.tag = "Ok")
             => IsSaltOf(log[i].salt, log[i].site, log[i].login, log[i].counter)
    /\ \A q \in DOMAIN kdf :
          q[1] = "pbkdf2" =>
             \E p \in Procs :
                /\ q[4] = salt[p]
                /\ IsSaltOf(q[4], args[p].site, args[p].login, args[p].counter)

\* a password was derived for counter 256 with a non-empty site and login,
\* from a salt that ends in "100"
C18_Witness ==
    /\ Len(log) = 1
    /\ log[1].result.tag = "Ok"
    /\ log[1].counter = 256
    /\ log[1].site = <<115, 49>>
    /\ log[1].login = <<108, 48>>
    /\ log[1].salt = <<115, 49, 108, 48, 49, 48, 48>>

-----------------------------------------------------------------------------
(* SpecInterleave: every caller makes one password() call, on its own
   counter, and the steps of the calls are taken in any order; a call starts
   while at most one other call is under way *)

UnderWay(p) == pc[p] \notin {"idle", "done"}

\* the settings of caller p's call
InterleaveSettings(p) ==
    IF p % 2 = 1 THEN SettingsOf(5, "LowercaseNumbers", None)
    ELSE SettingsOf(5, "Numbers", None)

NextInterleave ==
    \/ /\ newResult = "none"
       /\ \E m \in Masters : LessPassNew(m, "SHA256")
    \/ \E p \in Procs :
          /\ args[p] = NoArgs
          /\ \A q, r \in Procs \ {p} : (UnderWay(q) /\ UnderWay(r)) => q = r
          /\ PasswordCall(p, <<115>>, <<108>>, p, InterleaveSettings(p))
    \/ \E p \in Procs : PasswordRun(p)

SpecInterleave == Init /\ [][NextInterleave]_vars

\* a derivation run alone, n more turns of step 1: the pool and the buffer
RECURSIVE Alone1(_, _, _, _)
Alone1(e, pw, chars, n) ==
    IF n = 0 THEN <<e, pw>>
    ELSE CHOOSE r \in {Alone1(c[1], Append(pw, chars[c[2] + 1]), chars, n - 1) :
                        c \in {consume(e, Len(chars))}} : TRUE

\* run alone, turns i+1..n of step 2: the pool and the chosen characters
RECURSIVE Alone2(_, _, _, _, _)
Alone2(e, add, serials, i, n) ==
    IF i = n THEN <<e, add>>
    ELSE CHOOSE r \in {Alone2(c[1],
                               Append(add, get_serial(serials[i + 1])[c[2] + 1]),
                               serials, i + 1, n) :
                        c \in {consume(e, serial_len(serials[i + 1]))}} : TRUE

\* run alone, turns i+1..n of step 3: the pool and the buffer
RECURSIVE Alone3(_, _, _, _, _)
Alone3(e, pw, add, i, n) ==
    IF i = n THEN <<e, pw>>
    ELSE CHOOSE r \in {Alone3(c[1], Insert(pw, c[2], add[i + 1]), add, i + 1, n) :
                        c \in {consume(e, Len(pw))}} : TRUE

\* run alone from the PBKDF2 output digest: the pool, the buffer and the
\* chosen characters at position pos, turn n
AloneAt(digest, settings, pos, n) ==
    LET chars == get_chars(settings.char_set)
        serials == get_serials(settings.char_set)
        n1 == IF pos = "step1" THEN n ELSE max_len(settings)
        n2 == CASE pos = "step1" -> 0
                [] pos = "step2" -> n
                [] OTHER -> Len(serials)
        n3 == CASE pos \in {"step1", "step2"} -> 0
                [] pos = "step3" -> n
                [] OTHER -> Len(serials)
        s1 == Alone1(Entropy_new(digest), <<>>, chars, n1)
        s2 == Alone2(s1[1], <<>>, serials, 0, n2)
        s3 == Alone3(s2[1], s1[2], s2[2], 0, n3)
    IN  <<s3[1], s3[2], s2[2]>>

\* the PBKDF2 output of caller p's derivation
DigestOf(p) ==
    kdf[pbkdf2(algorithm[p], lp.master, salt[p], get_iterations(args[p].settings))]

\* C19: derivations whose steps are interleaved in any order do not
\* interfere: at every step each one holds the pool, the buffer and the chosen
\* characters it holds at that step when it runs alone, and it returns the
\* password it returns when it runs alone.
C19_NoInterference ==
    \A p \in Procs :
       pc[p] \in {"step1", "step2", "step3", "return", "done"} =>
          LET alone == AloneAt(DigestOf(p), args[p].settings, pc[p], idx[p])
          IN  /\ entropy[p] = alone[1]
              /\ password[p] = alone[2]
              /\ additional[p] = alone[3]
              /\ pc[p] = "done" => result[p] = Ok(alone[2])

\* two derivations are under way at once, each part-way through a loop, on
\* different pools
C19_Witness ==
    /\ pc[1] = "step3"
    /\ idx[1] = 1
    /\ pc[2] = "step2"
    /\ idx[2] = 1
    /\ entropy[1] # entropy[2]
    /\ password[1] # password[2]

-----------------------------------------------------------------------------
(* SpecInsert: one password() call per run, over every selection of
   charsets and the shortest lengths *)

InsertLens == {5, 6, 7}

NextInsert ==
    \/ /\ newResult = "none"
       /\ \E m \in Masters : LessPassNew(m, "SHA256")
    \/ /\ args[1] = NoArgs
       /\ \E len \in InsertLens, cs \in CharacterSets, counter \in {1, 2} :
             PasswordCall(1, <<115>>, <<108>>, counter,
                          SettingsOf(len, cs, None))
    \/ PasswordRun(1)

SpecInsert == Init /\ [][NextInsert]_vars

\* caller p has inserted at least one mandatory character; rem[p] holds the
\* length the position was drawn among and the position
HasInserted(p) ==
    /\ pc[p] \in {"step3", "return"}
    /\ idx[p] >= 1

\* C20 as stated: the position of a mandatory character is drawn by
\* consume(currentLen + 1), currentLen being the length of the working buffer
\* before the insertion, so that it ranges over 0..currentLen.
C20_ConsumeLenPlusOne ==
    \A p \in Procs :
       HasInserted(p) => rem[p][1] = (Len(password[p]) - 1) + 1

\* C20, amended: each mandatory character, taken in the fixed flag order, is
\* inserted at pos = consume(currentLen), currentLen being the length of the
\* working buffer before the insertion (baseLen at first, one more after each
\* insertion); pos ranges over 0..currentLen-1, so the character is never
\* placed after the last character of the buffer.
C20_ConsumeLen ==
    \A p \in Procs :
       HasInserted(p) =>
          LET currentLen == Len(password[p]) - 1
              pos == rem[p][2]
          IN  /\ currentLen = max_len(args[p].settings) + idx[p] - 1
              /\ rem[p][1] = currentLen
              /\ pos \in 0..(currentLen - 1)
              /\ password[p][pos + 1] = additional[p][idx[p]]
              /\ additional[p][idx[p]] \in
                    Range(get_serial(get_serials(args[p].settings.char_set)[idx[p]]))

\* the third mandatory character was inserted at the highest position the
\* code draws, just before the last character of the buffer
C20_Witness ==
    /\ HasInserted(1)
    /\ idx[1] = 3
    /\ rem[1][2] = rem[1][1] - 1
    /\ rem[1][2] = Len(password[1]) - 2

-----------------------------------------------------------------------------
(* SpecEntropy: one pool is built and consumed by any sequence of divisors *)

ConsumeLens == {1, 2, 94}

NextEntropy ==
    \/ /\ entropy[1] = <<>>
       /\ \E m \in Masters : EntropyNew(1, "SHA256", m, <<115, 108, 49>>, 100000)
    \/ \E len \in ConsumeLens : EntropyConsume(1, len)

SpecEntropy == Init /\ [][NextEntropy]_vars

\* the digits of e * n + r, for digits e of base Base, from digit i down
RECURSIVE MulAdd(_, _, _, _)
MulAdd(e, n, carry, i) ==
    IF i = 0 THEN e
    ELSE LET cur == e[i] * n + carry
         IN  MulAdd([e EXCEPT ![i] = cur % Base], n, cur \div Base, i - 1)

\* the carry out of the most significant digit of e * n + r
RECURSIVE MulCarry(_, _, _, _)
MulCarry(e, n, carry, i) ==
    IF i = 0 THEN carry
    ELSE MulCarry(e, n, (e[i] * n + carry) \div Base, i - 1)

\* a <= b for integers written with the same number of digits
DigitsLeq(a, b) ==
    \A i \in 1..Len(a) :
       (\A j \in 1..(i - 1) : a[j] = b[j]) => a[i] <= b[i]

IsZero(e) == \A i \in 1..Len(e) : e[i] = 0

\* C21: Entropy::consume(n) with n > 0 returns r = E mod n with 0 <= r < n
\* and replaces the stored integer E by E div n, so that
\* E_old = E_new * n + r; the stored integer never increases, and once it is
\* 0 every further consume returns 0 and leaves it 0.
C21_Consume ==
    [][\A p \in Procs :
          (entropy[p] # <<>> /\ rem'[p][1] > 0) =>
             LET n == rem'[p][1]
                 r == rem'[p][2]
             IN  /\ r >= 0
                 /\ r < n
                 /\ Len(entropy'[p]) = Len(entropy[p])
                 /\ MulAdd(entropy'[p], n, r, Len(entropy[p])) = entropy[p]
                 /\ MulCarry(entropy'[p], n, r, Len(entropy[p])) = 0
                 /\ DigitsLeq(entropy'[p], entropy[p])
                 /\ IsZero(entropy[p]) => (r = 0 /\ IsZero(entropy'[p]))]_vars

\* a pool that was not zero has been consumed down to zero, the last call
\* dividing by 94 and returning a remainder that is not zero
C21_Witness ==
    /\ entropy[1] # <<>>
    /\ IsZero(entropy[1])
    /\ rem[1][1] = 94
    /\ rem[1][2] > 0

-----------------------------------------------------------------------------
(* SpecDecrypt: secret_hotp / secret_totp are called once with an input of
   32 or 64 bytes whose last byte is any byte *)

DecryptInputs ==
    {[SecretSample(v, n) EXCEPT ![n] = b] :
        v \in {0, 1}, n \in {32, 64}, b \in 0..255}
DecryptKeys == {SampleDigest(seed, n) : seed \in 0..MaxSeed, n \in {32, 64}}

NextDecrypt ==
    \/ /\ newResult = "none"
       /\ \E m \in Masters : LessPassNew(m, "SHA256")
    \/ /\ log = <<>>
       /\ \E fn \in OtpFns, secret \in DecryptInputs :
             SecretOtp(1, fn, <<115>>, <<108>>, secret, DecryptKeys)

SpecDecrypt == Init /\ [][NextDecrypt]_vars

\* C23: an input of exactly 32 (64) bytes is taken as ciphertext and never
\* encrypted: the call returns plainLen = input[last] XOR keystream[last]
\* bytes, byte i being keystream[pos] XOR input[pos] with
\* pos = (start + i) mod (len - 1), len the input's length; it never fails,
\* every pos lies inside the input and the keystream, and the returned length
\* is not limited to 31 or 63.
C23_DecryptAnyInput ==
    \A k \in 1..Len(log) :
       LET e == log[k]
           len == Len(e.secret)
       IN  (IsOtpCall(e) /\ len \in {32, 64}) =>
             /\ e.result.tag = "Ok"
             /\ Len(e.hash) = len
             /\ LET plainLen == BitXor(e.secret[len], e.hash[len])
                    start == BitAnd(e.hash[len], len - 1)
                IN  /\ Len(e.result.val) = plainLen
                    /\ plainLen \in 0..255
                    /\ \A i \in 0..(plainLen - 1) :
                          LET pos == (start + i) % (len - 1)
                          IN  /\ pos + 1 <= Len(e.secret)
                              /\ pos + 1 <= Len(e.hash)
                              /\ e.result.val[i + 1] =
                                    BitXor(e.hash[pos + 1], e.secret[pos + 1])

\* a 32-byte input was decrypted to 255 bytes
C23_Witness ==
    /\ Len(log) = 1
    /\ IsOtpCall(log[1])
    /\ Len(log[1].secret) = 32
    /\ log[1].result.tag = "Ok"
    /\ Len(log[1].result.val) = 255

-----------------------------------------------------------------------------
(* The derivation of SpecPw never leaves its buffers *)

\* caller p's call has passed validation
Validated(p) == pc[p] \in {"derive", "step1", "step2", "step3", "return"}

\* C24: for every input that passes validation in password() (5 <= length <=
\* ceiling, 1..4 charsets) no consume divides by zero and no index is out of
\* range: the pool is not empty, baseLen = length - k >= 1, every sampled
\* pool index is below the pool's length, every mandatory-character index is
\* below the length of its flag's alphabet (serial_len(flag) is the length of
\* get_serial(flag) for the four flags), and every insertion position is at
\* most the length of the buffer.
C24_NoPanic ==
    /\ \A f \in Range(FlagOrder) : serial_len(f) = Len(get_serial(f))
    /\ \A p \in Procs :
          /\ result[p] # Panic
          /\ Validated(p) =>
                LET settings == args[p].settings
                    chars == get_chars(settings.char_set)
                    serials == get_serials(settings.char_set)
                    k == get_charset_count(settings.char_set)
                IN  /\ settings.pass_len >= 5
                    /\ settings.pass_len <= Ceiling(algorithm[p])
                    /\ k \in 1..4
                    /\ Len(chars) > 0
                    /\ settings.pass_len - k >= 1
                    /\ (pc[p] = "step1" /\ idx[p] >= 1) =>
                          /\ rem[p][1] = Len(chars)
                          /\ rem[p][2] \in 0..(Len(chars) - 1)
                    /\ (pc[p] = "step2" /\ idx[p] >= 1) =>
                          /\ rem[p][1] > 0
                          /\ rem[p][2] \in
                                0..(Len(get_serial(serials[idx[p]])) - 1)
                    /\ (pc[p] \in {"step3", "return"} /\ idx[p] >= 1) =>
                          /\ rem[p][1] > 0
                          /\ rem[p][2] \in 0..(Len(password[p]) - 1)

\* a password of 5 characters over the four charsets: baseLen is 1 and the
\* fourth mandatory character has been inserted
C24_Witness ==
    /\ pc[1] = "return"
    /\ args[1].settings.pass_len = 5
    /\ get_charset_count(args[1].settings.char_set) = 4
    /\ idx[1] = 4
    /\ Len(password[1]) = 5

-----------------------------------------------------------------------------------------------------------------------------------------
(* The web application: what reaches update() from outside.  view() puts    *)
(* the master page on the page before a master password is set and the     *)
(* list after, and over it the modal of model.page; the list and its        *)
(* handlers stay on the page under every modal.  The credential page        *)
(* closes, copies a field, edits, removes, shows or hides; the form         *)
(* closes, cancels, changes one field of the draft, or saves when Save is   *)
(* enabled.  An                                                             *)
(* event from outside, a timer or a second of the clock comes when the     *)
(* messages sent are handled and the futures in which nothing waits have    *)
(* completed.                                                               *)

\* update() has returned and nothing it sent is waiting
Quiet == queue = <<>> /\ fault = "none"

\* the application waits for what comes from outside
Idle == Quiet /\ \A cmd \in BagToSet(cmds) : cmd.timeout > 0

\* view(): the modal of Page::Credential(id) is there when the list has id
Shown ==
    /\ model.page.kind = "Credential"
    /\ get(model.credentials, model.page.id) # None

OnMaster == Idle /\ ~ model.lesspass
OnList == Idle /\ model.lesspass
OnCredential == Idle /\ model.lesspass /\ Shown
OnForm == Idle /\ model.lesspass /\ model.page = PageAddCredential
                /\ model.credential # None

\* what the user may type or press in the form: sites, logins, lengths
\* (u8), charset buttons, counters (u32), values of the OTP checkbox,
\* digits (u8) and secrets
FormInputs(sites, logins, lens, flags, counters, checks, digits, secrets) ==
    [checks |-> checks, counters |-> counters, digits |-> digits,
     flags |-> flags, lens |-> lens, logins |-> logins,
     secrets |-> secrets, sites |-> sites]

\* nothing but the site and the login is typed
NamesOnly(sites, logins) ==
    FormInputs(sites, logins, {}, {}, {}, {}, {}, {})

\* view/add_credential.rs: the drafts one input event of the form sends,
\* the site, the login, a charset button, the length or the counter being
\* changed; the OTP checkbox, whose handler matches a constant that is not
\* "on" and so removes the OTP whatever the value; the digits and the
\* secret, which are there when the draft has a TOTP
FormDrafts(inputs) ==
    LET draft == model.credential[1]
        totp == draft.otp[1]
    IN  {[draft EXCEPT !.site = s] : s \in inputs.sites}
        \cup {[draft EXCEPT !.login = l] : l \in inputs.logins}
        \cup {[draft EXCEPT !.settings.pass_len = n] : n \in inputs.lens}
        \cup {[draft EXCEPT !.settings =
                 SettingsOf(draft.settings.pass_len,
                            set_charset_value(
                                draft.settings.char_set,
                                IF is_flag(draft.settings.char_set, b)
                                THEN "DontUse" ELSE "Use", b),
                            None)] : b \in inputs.flags}
        \cup {[draft EXCEPT !.counter = c] : c \in inputs.counters}
        \cup {[draft EXCEPT !.otp = OtpTypeNone] : v \in inputs.checks}
        \cup (IF draft.otp = OtpTypeNone THEN {}
              ELSE {[draft EXCEPT !.otp = Totp([totp EXCEPT !.digits = d])] :
                      d \in inputs.digits}
                   \cup {[draft EXCEPT !.otp =
                            Totp([totp EXCEPT !.secret_clear =
                                    to_ascii_uppercase(x)])] :
                           x \in inputs.secrets})

\* website_list: the ids of the cards of the list, one for every credential
\* the search pattern lets through
Cards ==
    LET pattern == trim(model.search_pattern)
    IN  {model.credentials[i].id : i \in
           {k \in 1..Len(model.credentials) :
              \/ pattern = <<>>
              \/ contains(model.credentials[k].site, pattern)
              \/ contains(model.credentials[k].login, pattern)}}

\* a card of the list, of one of the credentials ids, is used
Opens(ids) ==
    /\ BagCardinality(cmds) < MaxCmds
    /\ \E id \in Cards \cap ids : ShowCredential(id, <<>>, cmds)

\* the same with the update() of lib.rs
lib_Opens(ids) ==
    /\ BagCardinality(cmds) < MaxCmds
    /\ \E id \in Cards \cap ids : lib_ShowCredential(id, <<>>, cmds)

\* the search field is given another of the patterns
Searches(patterns) ==
    \E search \in patterns :
       /\ search # model.search_pattern
       /\ SearchCredential(search, <<>>, cmds)

\* the events of the list
ListEvents ==
    \/ Opens(Cards)
    \/ ShowAddCredential(<<>>, cmds)

\* the copy icon of a field of the credential page is used
Copies ==
    /\ BagCardinality(cmds) < MaxCmds
    /\ ShowInformation(Some("Copied"), <<>>, cmds)

\* the events of the credential page, but for the TOTP; the eye is there
\* when the password is
CredentialEvents ==
    \/ ShowCredentialList(<<>>, cmds)
    \/ Copies
    \/ ShowEditCredential(model.page.id, <<>>, cmds)
    \/ RemoveCredential(model.page.id, <<>>, cmds)
    \/ /\ model.password # None
       /\ ShowPassword(~ model.password_displayed, <<>>, cmds)

\* the events of the form but for Cancel and Save: it is closed, or one
\* input changes the draft
FormEdits(inputs) ==
    \/ ShowCredentialList(<<>>, cmds)
    \/ \E draft \in FormDrafts(inputs) :
          UpdateModifCredential(draft, <<>>, cmds)

\* the events of the form, but for Save; Cancel shows the credential edited
FormEvents(inputs) ==
    \/ FormEdits(inputs)
    \/ /\ model.credential[1].id # Nil
       /\ BagCardinality(cmds) < MaxCmds
       /\ ShowCredential(model.credential[1].id, <<>>, cmds)

\* the same with the update() of lib.rs
lib_FormEvents(inputs) ==
    \/ FormEdits(inputs)
    \/ /\ model.credential[1].id # Nil
       /\ BagCardinality(cmds) < MaxCmds
       /\ lib_ShowCredential(model.credential[1].id, <<>>, cmds)

\* Save can be pressed
CanSave ==
    /\ OnForm
    /\ ~ model.save_disabled
    /\ BagCardinality(cmds) < MaxCmds
    /\ model.credential[1].id = Nil => next_ulid < MaxUlid

\* the credential on the page has a TOTP
PageHasTotp ==
    /\ get(model.credentials, model.page.id) # None
    /\ get(model.credentials, model.page.id)[1].otp # OtpTypeNone

\* what happens without the user under the update() of update.rs: a queued
\* message is handled, a future in which nothing waits completes, the
\* timer of another ends
Inside ==
    \/ fault = "none" /\ SendMsg
    \/ Quiet /\ \E cmd \in BagToSet(cmds) :
                   cmd.timeout = 0 /\ PerformCmd(cmd)
    \/ Idle /\ \E cmd \in BagToSet(cmds) : PerformCmd(cmd)

\* the same under the update() of lib.rs: the timer of a future ends
lib_Inside ==
    \/ fault = "none" /\ lib_SendMsg
    \/ Idle /\ \E cmd \in BagToSet(cmds) : PerformCmd(cmd)

\* what is typed in the search field: nothing, " f" (the site of two of the
\* credentials of add_mock_data, once trimmed) and "spam" (the login of the
\* two others)
Patterns == {<<>>, <<32, 102>>, <<115, 112, 97, 109>>}

-----------------------------------------------------------------------------
(* SpecShow: after a launch with a stored list, under the update() of      *)
(* lib.rs, the cards of the list are used, under a credential page too,    *)
(* the list is searched and the page is closed, while the timers of the    *)
(* futures that compute the passwords end at any time                      *)

NextShow ==
    \/ OnMaster /\ SetMaster(<<>>, cmds)
    \/ OnList /\ lib_Opens(Cards)
    \/ OnList /\ Searches(Patterns)
    \/ OnCredential /\ ShowCredentialList(<<>>, cmds)
    \/ OnCredential /\ Copies
    \/ lib_Inside

SpecShow == InitStored /\ [][NextShow]_vars

\* C26: whenever a password is on the page of a credential, it is the
\* password derived for that credential
C26_PasswordOfPage ==
    (model.password # None /\ model.page.kind = "Credential"
        /\ get(model.credentials, model.page.id) # None)
    => Ok(model.password[1])
         = PasswordOf(get(model.credentials, model.page.id)[1])

-----------------------------------------------------------------------------
(* SpecEdit: after the first launch, under the update() of update.rs,      *)
(* credentials are opened and removed, the third is given another site in *)
(* the form, and new ones are added, the list being used under a modal too *)
(* and searched                                                             *)

EditCards == {3}
EditSites == {<<99>>}
EditLogins == {<<120>>}
EditPatterns == {<<>>, <<32, 102>>}

\* the site is typed, and the login of a new credential
EditTyped ==
    NamesOnly(EditSites,
              IF model.credential[1].id = Nil THEN EditLogins ELSE {})

NextEdit ==
    \/ OnMaster /\ SetMaster(<<>>, cmds)
    \/ OnList /\ ListEvents
    \/ OnList /\ Searches(EditPatterns)
    \/ OnCredential /\ ShowCredentialList(<<>>, cmds)
    \/ OnCredential /\ Copies
    \/ OnCredential /\ model.page.id \in EditCards
                    /\ ShowEditCredential(model.page.id, <<>>, cmds)
    \/ OnCredential /\ RemoveCredential(model.page.id, <<>>, cmds)
    \/ OnForm /\ FormEvents(EditTyped)
    \/ CanSave /\ AddCredential(<<>>, cmds)
    \/ Inside

SpecEdit == Init /\ [][NextEdit]_vars

\* an entry is not after another in the order of (site, login)
NotAfter(a, b) ==
    \/ cmp(a.site, b.site) = "Less"
    \/ /\ cmp(a.site, b.site) = "Equal"
       /\ cmp(a.login, b.login) # "Greater"

Ordered(cs) == \A i \in 1..(Len(cs) - 1) : NotAfter(cs[i], cs[i + 1])

\* C27: a credential list that is ordered by (site, login) is still ordered
\* after any AddCredential (a new entry or a modification) and
\* RemoveCredential
C27_ListOrdered ==
    [][Ordered(model.credentials) => Ordered(model'.credentials)]_vars

-----------------------------------------------------------------------------
(* SpecLib: the same launch under the update() of lib.rs: the second       *)
(* credential, which has a TOTP, is opened and changed in the form (site,  *)
(* OTP checkbox, digits, secret), its code is asked for, new credentials   *)
(* are added, and the list is searched; the card and the add icon are used *)
(* under a modal too                                                        *)

LibCards == {2}
LibChecks == {"on"}
LibDigits == {5}
\* "m1", which is not base32
LibSecrets == {<<109, 49>>}
LibPatterns == {<<>>, <<115, 112, 97, 109>>}

LibTyped ==
    FormInputs(EditSites,
               IF model.credential[1].id = Nil THEN EditLogins ELSE {},
               {}, {}, {}, LibChecks, LibDigits, LibSecrets)

NextLib ==
    \/ OnMaster /\ SetMaster(<<>>, cmds)
    \/ OnList /\ lib_Opens(LibCards)
    \/ OnList /\ ShowAddCredential(<<>>, cmds)
    \/ OnList /\ Searches(LibPatterns)
    \/ OnCredential /\ ShowCredentialList(<<>>, cmds)
    \/ OnCredential /\ Copies
    \/ OnCredential /\ ShowEditCredential(model.page.id, <<>>, cmds)
    \/ OnCredential /\ PageHasTotp /\ ShowOtp(model.page.id, <<>>, cmds)
    \/ OnForm /\ lib_FormEvents(LibTyped)
    \/ CanSave /\ lib_AddCredential(<<>>, cmds)
    \/ lib_Inside

SpecLib == Init /\ [][NextLib]_vars

\* the step is the handling of AddCredential: the only one from outside
\* that sends ShowCredential
IsAddCredential ==
    /\ CanSave
    /\ queue' # <<>>
    /\ queue'[1].type = "ShowCredential"

\* the ids of a list are pairwise distinct
DistinctIds(cs) ==
    \A i, j \in 1..Len(cs) : cs[i].id = cs[j].id => i = j

\* C28: AddCredential with a draft without id adds exactly one entry under
\* a new id that is not nil and not in the list, changes no other entry and
\* shows the new entry; with a draft whose id is in the list it replaces
\* that entry and keeps the length; the ids stay pairwise distinct
C28_AddCredential ==
    [][IsAddCredential =>
         LET draft == model.credential[1]
             old == model.credentials
             new == model'.credentials
             id == queue'[1].id
         IN  /\ DistinctIds(old) => DistinctIds(new)
             /\ IF draft.id = Nil
                THEN /\ id # Nil
                     /\ \A i \in 1..Len(old) : old[i].id # id
                     /\ Len(new) = Len(old) + 1
                     /\ \E k \in 1..Len(new) :
                           new = vec_insert(old, k, [draft EXCEPT !.id = id])
                ELSE index(old, draft.id) # 0
                     => /\ id = draft.id
                        /\ new = [old EXCEPT ![index(old, draft.id)] = draft]
    ]_vars

-----------------------------------------------------------------------------
(* SpecForm: after the first launch, under the update() of update.rs, the  *)
(* third credential, which add_mock_data builds the same in lib.rs and in  *)
(* model.rs, is opened, shown, hidden, removed and edited with blank and   *)
(* non-blank names, two of the charset buttons, a length on either side of *)
(* what password() accepts and a counter, and what Save stores is shown    *)

FormCards == {3}
FormSites == {<<32, 194, 160>>, <<99>>}
FormLogins == {<<120>>}
FormLens == {4, 71}
FormFlags == {1, 4}
FormCounters == {7}
FormPatterns == {<<>>, <<32, 102>>}

FormTyped ==
    FormInputs(FormSites, FormLogins, FormLens, FormFlags, FormCounters,
               {}, {}, {})

NextForm ==
    \/ OnMaster /\ SetMaster(<<>>, cmds)
    \/ OnList /\ Opens(FormCards)
    \/ OnList /\ Searches(FormPatterns)
    \/ OnCredential /\ CredentialEvents
    \/ OnForm /\ FormEvents(FormTyped)
    \/ CanSave /\ AddCredential(<<>>, cmds)
    \/ Inside

SpecForm == Init /\ [][NextForm]_vars

\* the errors password_with_algorithm_from_length returns
PasswordErrors ==
    {"UnsupportedAlgorithm", "PasswordTooShort", "PasswordTooLong",
     "NoCharsetSelected"}

\* C29: a credential the form lets the user save is shown without failure:
\* the unwrap of the password computed for it never panics
C29_ShownWithoutFailure == fault \notin PasswordErrors

-----------------------------------------------------------------------------
(* SpecClock: after the first launch, under the update() of update.rs, a   *)
(* credential is opened, the code of its TOTP is asked for, the list is    *)
(* searched, and time passes.  The interval stream of the page fires every *)
(* 250 ms: a second of the clock does not end before a SetTotpTime with    *)
(* the seconds left in it is handled                                        *)

ClockPatterns == {<<>>, <<115, 112, 97, 109>>}

\* the last SetTotpTime handled was one of the present second, or one now
\* would change nothing
TimeHandled ==
    /\ model.otp # None
    /\ model.otp[1].time = now(model.otp[1].period)

NextClock ==
    \/ OnMaster /\ SetMaster(<<>>, cmds)
    \/ OnList /\ Opens(Cards)
    \/ OnList /\ Searches(ClockPatterns)
    \/ OnCredential /\ ShowCredentialList(<<>>, cmds)
    \/ OnCredential /\ Copies
    \/ OnCredential /\ PageHasTotp /\ ShowOtp(model.page.id, <<>>, cmds)
    \/ Idle /\ Interval
    \/ Idle /\ clock < MaxClock /\ (model.otp = None \/ TimeHandled)
            /\ Second
    \/ Inside

SpecClock == Init /\ [][NextClock]_vars

\* the seconds left a SetTotpTime of the stream can carry
SecondsLeft == 1..30

\* C30: a displayed TOTP code is hidden once it has expired.  For every
\* SetTotpTime(id, t): without model.otp nothing changes; with t equal to
\* the stored time nothing changes; with t greater the value is cleared,
\* with t smaller it is kept, and in both the stored time becomes t.  And a
\* code that is displayed once a SetTotpTime of the present second is
\* handled is the code of the present period: the code of an earlier
\* period is not displayed any more
C30_HiddenOnceExpired ==
    /\ \A t \in SecondsLeft :
          LET after == SetTotpTime_model(t)
          IN  IF model.otp = None \/ t = model.otp[1].time
              THEN after = model
              ELSE IF t > model.otp[1].time
              THEN after = [model EXCEPT !.otp[1].value = None,
                                         !.otp[1].time = t]
              ELSE after = [model EXCEPT !.otp[1].time = t]
    /\ (TimeHandled /\ model.otp[1].value # None)
       => model.otp[1].value[1].counter
            = totp_from_ts(clock, model.otp[1].period)

\* the code of the period that has just ended is on the page, the
\* SetTotpTime of the new period not being handled yet
C30_Witness ==
    /\ model.otp # None
    /\ model.otp[1].value # None
    /\ model.otp[1].time < now(model.otp[1].period)
    /\ model.otp[1].value[1].counter
         < totp_from_ts(clock, model.otp[1].period)

====
